---- MODULE Spec2Model ----
(***************************************************************************)
(* Model of the hooks run-state interpreter (gateway/hooks/runstate.go):   *)
(* concurrent Run invocations of one session, the run-slot, barriers,      *)
(* counters, and the interpretation of a hook's action tree.               *)
(***************************************************************************)
EXTENDS Integers, Sequences, FiniteSets, TLC

(* ---------------------------------------------------------------------- *)
(* Bounds                                                                  *)
(* ---------------------------------------------------------------------- *)

\* number of Run invocations (run-states) in the session
NumRuns == 4

\* number of Run invocations in the smaller sessions: those whose hooks use
\* a barrier, and those of three hooks taken in turn
NumWaitRuns == 3

\* number of contexts that may be cancelled in one behaviour
MaxCancels == 1

Procs == 1..NumRuns

(* ---------------------------------------------------------------------- *)
(* Values: responses, errors, statuses                                     *)
(* ---------------------------------------------------------------------- *)

\* a nil interface{} response
NilResp == "nil"

\* a nil error
NoErr == [kind |-> "none", code |-> "", msg |-> ""]

\* an error made by errors.New(msg)
PlainErr(msg) == [kind |-> "plain", code |-> "", msg |-> msg]

\* the error a grpc status with a non-OK code turns into
StatusErr(code, msg) == [kind |-> "status", code |-> code, msg |-> msg]

\* ctx.Err() of a cancelled context
CtxErr == [kind |-> "ctx", code |-> "CANCELLED", msg |-> "context canceled"]

\* a nil *status.Status
NilStatus == [nil |-> TRUE, code |-> "", msg |-> "", ndetails |-> 0]

\* status.New(code, msg)
StatusNew(code, msg) == [nil |-> FALSE, code |-> code, msg |-> msg, ndetails |-> 0]

\* (*Status).Code(): a nil status has code OK
StatusCode(st) == IF st.nil THEN "OK" ELSE st.code

\* (*Status).WithDetails(detail): (nil, err) for a status of code OK and for
\* a detail that cannot be marshalled, a copy carrying the detail otherwise.
\* The caller keeps the first value only.
WithDetails(st, detail) ==
    IF StatusCode(st) = "OK" THEN NilStatus
    ELSE IF detail = "bad" THEN NilStatus
    ELSE [st EXCEPT !.ndetails = @ + 1]

\* (*Status).Err(): nil for a nil status and for code OK
StatusToErr(st) ==
    IF StatusCode(st) = "OK" THEN NoErr ELSE StatusErr(st.code, st.msg)

(* ---------------------------------------------------------------------- *)
(* Hook actions, conditions, value refs                                    *)
(* ---------------------------------------------------------------------- *)

NoRef == [kind |-> "None", id |-> "", json |-> ""]
CounterValue(id) == [kind |-> "CounterValue", id |-> id, json |-> ""]
JsonValue(text) == [kind |-> "JsonValue", id |-> "", json |-> text]
RequestField(path) == [kind |-> "RequestField", id |-> path, json |-> ""]

Cond(l, op, r) == [left |-> l, op |-> op, right |-> r]

Act(kind) ==
    [kind |-> kind, id |-> "", delta |-> 0, all |-> FALSE, value |-> NilResp,
     code |-> "", msg |-> "", details |-> <<>>,
     cond |-> <<>>, match |-> <<>>, noMatch |-> <<>>]

ActIf(cond, match, noMatch) ==
    [Act("If") EXCEPT !.cond = cond, !.match = match, !.noMatch = noMatch]
ActCounter(id, delta) == [Act("Counter") EXCEPT !.id = id, !.delta = delta]
ActWaitOnBarrier(id) == [Act("WaitOnBarrier") EXCEPT !.id = id]
ActSignalBarrier(id, all) == [Act("SignalBarrier") EXCEPT !.id = id, !.all = all]
ActSetResponse(v) == [Act("SetResponse") EXCEPT !.value = v]
ActReturnError(code, msg, details) ==
    [Act("ReturnError") EXCEPT !.code = code, !.msg = msg, !.details = details]
\* a HookAction whose oneof is not set
ActUnset == Act("Unset")

(* ---------------------------------------------------------------------- *)
(* Dynamic values, JSON literals and the comparator                        *)
(* ---------------------------------------------------------------------- *)

NullVal == [t |-> "null", n |-> 0]
NumVal(n) == [t |-> "num", n |-> n]
StrVal(n) == [t |-> "str", n |-> n]

\* json.Unmarshal of the literals the hooks of this model use
JsonDecode(text) ==
    CASE text = "0" -> [err |-> NoErr, val |-> NumVal(0)]
      [] text = "1" -> [err |-> NoErr, val |-> NumVal(1)]
      [] text = "3" -> [err |-> NoErr, val |-> NumVal(3)]
      [] text = "null" -> [err |-> NoErr, val |-> NullVal]
      [] text = "\"a\"" -> [err |-> NoErr, val |-> StrVal(1)]
      [] OTHER -> [err |-> PlainErr("invalid character"), val |-> NullVal]

Sign(d) == IF d < 0 THEN -1 ELSE IF d > 0 THEN 1 ELSE 0

\* govalcmp.Compare: a delta for two values of one comparison class, an
\* error for values of different classes
GovalcmpCompare(left, right) ==
    IF left.t # right.t
    THEN [err |-> PlainErr("invalid comparison"), delta |-> 0]
    ELSE [err |-> NoErr, delta |-> Sign(left.n - right.n)]

\* a compare whose LESS_THAN admits equality
compareOffByOne(left, op, right) ==
    LET c == GovalcmpCompare(left, right) IN
    IF c.err # NoErr THEN [ok |-> FALSE, err |-> c.err]
    ELSE CASE op = "EQUAL" -> [ok |-> c.delta = 0, err |-> NoErr]
           [] op = "GREATER_THAN" -> [ok |-> c.delta > 0, err |-> NoErr]
           [] op = "GREATER_THAN_OR_EQUAL" -> [ok |-> c.delta >= 0, err |-> NoErr]
           [] op = "LESS_THAN" -> [ok |-> c.delta <= 0, err |-> NoErr]
           [] op = "LESS_THAN_OR_EQUAL" -> [ok |-> c.delta <= 0, err |-> NoErr]
           [] OTHER -> [ok |-> FALSE, err |-> PlainErr("invalid comparison operator")]

\* runState.compare
compare(left, op, right) ==
    LET c == GovalcmpCompare(left, right) IN
    IF c.err # NoErr THEN [ok |-> FALSE, err |-> c.err]
    ELSE CASE op = "EQUAL" -> [ok |-> c.delta = 0, err |-> NoErr]
           [] op = "GREATER_THAN" -> [ok |-> c.delta > 0, err |-> NoErr]
           [] op = "GREATER_THAN_OR_EQUAL" -> [ok |-> c.delta >= 0, err |-> NoErr]
           [] op = "LESS_THAN" -> [ok |-> c.delta < 0, err |-> NoErr]
           [] op = "LESS_THAN_OR_EQUAL" -> [ok |-> c.delta <= 0, err |-> NoErr]
           [] OTHER -> [ok |-> FALSE, err |-> PlainErr("invalid comparison operator")]

(* ---------------------------------------------------------------------- *)
(* The registry of counters: id -> value, created on first reference       *)
(* ---------------------------------------------------------------------- *)

\* HooksContext.GetCounter / getCounterLocked: the registry after a lookup
\* of id, which creates the counter with value 0 when it is missing
GetCounter(cs, id) == IF id \in DOMAIN cs THEN cs ELSE cs @@ (id :> 0)

\* getCounterLocked after a lookup that missed: a fresh Counter is stored
\* under id, whatever is registered there by then
CounterStore(cs, id) ==
    IF id \in DOMAIN cs THEN [cs EXCEPT ![id] = 0] ELSE cs @@ (id :> 0)

\* Counter.Get after the lookup
CounterGet(cs, id) == GetCounter(cs, id)[id]

\* Counter.Update after the lookup
CounterUpdate(cs, id, delta) ==
    [GetCounter(cs, id) EXCEPT ![id] = @ + delta]

(* ---------------------------------------------------------------------- *)
(* Value resolution and conditions                                         *)
(* ---------------------------------------------------------------------- *)

\* runState.resolveValueRef and its three variants; cs is the registry of
\* counters, returned as the lookup leaves it
resolveValueRef(ref, cs) ==
    CASE ref.kind = "CounterValue" ->
           [val |-> NumVal(CounterGet(cs, ref.id)), err |-> NoErr,
            cs |-> GetCounter(cs, ref.id)]
      [] ref.kind = "RequestField" ->
           [val |-> NullVal, err |-> PlainErr("unimplemented request field query"),
            cs |-> cs]
      [] ref.kind = "JsonValue" ->
           [val |-> JsonDecode(ref.json).val, err |-> JsonDecode(ref.json).err,
            cs |-> cs]
      [] OTHER -> [val |-> NullVal, err |-> PlainErr("invalid value ref"), cs |-> cs]

\* runState.checkCondition
checkCondition(cond, cs) ==
    LET l == resolveValueRef(cond.left, cs) IN
    IF l.err # NoErr THEN [ok |-> FALSE, err |-> l.err, cs |-> l.cs]
    ELSE LET r == resolveValueRef(cond.right, l.cs) IN
         IF r.err # NoErr THEN [ok |-> FALSE, err |-> r.err, cs |-> r.cs]
         ELSE LET c == compare(l.val, cond.op, r.val) IN
              [ok |-> c.ok, err |-> c.err, cs |-> r.cs]

\* a checkConditions that evaluates every condition before it answers
RECURSIVE checkConditionsAll(_, _)
checkConditionsAll(conds, cs) ==
    IF conds = <<>> THEN [ok |-> TRUE, err |-> NoErr, cs |-> cs]
    ELSE LET c == checkCondition(Head(conds), cs)
             r == checkConditionsAll(Tail(conds), c.cs)
         IN  IF c.err # NoErr THEN [ok |-> FALSE, err |-> c.err, cs |-> r.cs]
             ELSE IF r.err # NoErr THEN r
             ELSE [ok |-> c.ok /\ r.ok, err |-> NoErr, cs |-> r.cs]

\* runState.checkConditions
RECURSIVE checkConditions(_, _)
checkConditions(conds, cs) ==
    IF conds = <<>> THEN [ok |-> TRUE, err |-> NoErr, cs |-> cs]
    ELSE LET c == checkCondition(Head(conds), cs) IN
         IF c.err # NoErr THEN [ok |-> FALSE, err |-> c.err, cs |-> c.cs]
         ELSE IF ~c.ok THEN [ok |-> FALSE, err |-> NoErr, cs |-> c.cs]
         ELSE checkConditions(Tail(conds), c.cs)

\* runState.runAction_ReturnError: the status after the loop over details
RECURSIVE AttachDetails(_, _)
AttachDetails(st, details) ==
    IF details = <<>> THEN st
    ELSE AttachDetails(WithDetails(st, Head(details)), Tail(details))

\* runState.runAction_ReturnError: the error it returns
runAction_ReturnError(action) ==
    StatusToErr(AttachDetails(StatusNew(action.code, action.msg), action.details))

(* ---------------------------------------------------------------------- *)
(* The hooks installed in the session                                      *)
(* ---------------------------------------------------------------------- *)

\* S1: pass-through
HookEmpty == <<>>

\* S2: error injection
HookS2 == <<ActReturnError("NOT_FOUND", "no", <<>>)>>

\* a ReturnError whose second detail cannot be attached
HookBadDetail == <<ActReturnError("NOT_FOUND", "no", <<"ok", "bad">>)>>

\* a ReturnError of code OK
HookOkCode == <<ActReturnError("OK", "fine", <<>>)>>

\* a ReturnError with attachable details only
HookGoodDetail == <<ActSetResponse("R1"), ActReturnError("ABORTED", "stop", <<"ok", "ok">>)>>

\* S3: conditional counter
HookS3 ==
    <<ActIf(<<Cond(CounterValue("n"), "LESS_THAN", JsonValue("3"))>>,
            <<ActCounter("n", 1), ActSetResponse("R1")>>,
            <<ActReturnError("RESOURCE_EXHAUSTED", "full", <<>>)>>)>>

\* S4: the waiter and the signaller of a rendezvous
HookA == <<ActWaitOnBarrier("b"), ActSetResponse("Ra")>>
HookB == <<ActSignalBarrier("b", FALSE), ActSetResponse("Rb")>>

\* S5: the signaller of a fan-out, which falls through to the handler
HookC == <<ActSignalBarrier("b", TRUE)>>

\* a response, then a matching branch that sets none
HookTree1 ==
    <<ActSetResponse("R1"),
      ActIf(<<Cond(CounterValue("m"), "GREATER_THAN_OR_EQUAL", JsonValue("0"))>>,
            <<ActCounter("m", 1)>>,
            <<ActSetResponse("R2")>>)>>

\* responses overwritten from nested branches, then an action that sets none
HookTree2 ==
    <<ActSetResponse("R1"),
      ActIf(<<Cond(JsonValue("1"), "EQUAL", JsonValue("0"))>>,
            <<>>,
            <<ActSetResponse("R2"),
              ActIf(<<>>, <<ActSetResponse("R3"), ActCounter("m", -1)>>, <<>>)>>),
      ActCounter("m", 1)>>

\* a response, then an error inside a branch, then a response never reached
HookTree3 ==
    <<ActSetResponse("R1"),
      ActIf(<<Cond(JsonValue("\"a\""), "EQUAL", JsonValue("\"a\""))>>,
            <<ActCounter("m", 1), ActReturnError("ABORTED", "stop", <<>>),
              ActCounter("m", 1)>>,
            <<>>),
      ActSetResponse("R2")>>

\* a condition whose evaluation fails, and an action of no known kind
HookTree4 ==
    <<ActIf(<<Cond(JsonValue("null"), "EQUAL", JsonValue("null")),
              Cond(JsonValue("1"), "LESS_THAN", JsonValue("null"))>>,
            <<ActSetResponse("R1")>>,
            <<ActSetResponse("R2")>>)>>
HookUnset == <<ActCounter("m", 1), ActUnset, ActSetResponse("R1")>>

\* a wait inside a branch, with a suffix in the branch and after it
HookNestedWait ==
    <<ActIf(<<>>, <<ActWaitOnBarrier("b"), ActCounter("m", 1)>>, <<>>),
      ActSetResponse("Ra")>>

\* a false condition before one whose evaluation fails
HookShort ==
    <<ActIf(<<Cond(JsonValue("1"), "EQUAL", JsonValue("0")),
              Cond(JsonValue("1"), "LESS_THAN", JsonValue("null"))>>,
            <<ActSetResponse("R1")>>,
            <<ActSetResponse("R2")>>)>>

\* a true condition, a false one, then one that reads a counter and a
\* literal that does not decode
HookLate ==
    <<ActIf(<<Cond(CounterValue("k"), "EQUAL", JsonValue("0")),
              Cond(JsonValue("\"a\""), "GREATER_THAN", JsonValue("\"a\"")),
              Cond(CounterValue("z"), "EQUAL", JsonValue("{"))>>,
            <<ActSetResponse("R1")>>,
            <<ActSetResponse("R2")>>)>>

\* conditions that all hold
HookAllTrue ==
    <<ActIf(<<Cond(JsonValue("1"), "GREATER_THAN", JsonValue("0")),
              Cond(CounterValue("k"), "LESS_THAN_OR_EQUAL", JsonValue("0"))>>,
            <<ActSetResponse("R1")>>,
            <<ActSetResponse("R2")>>)>>

\* a comparison operator that is none of the five
HookBadOp ==
    <<ActIf(<<Cond(JsonValue("1"), "EQUAL", JsonValue("1")),
              Cond(JsonValue("1"), "OP_UNSET", JsonValue("1"))>>,
            <<ActSetResponse("R1")>>,
            <<ActSetResponse("R2")>>)>>

\* a value ref whose oneof is not set
HookBadRef ==
    <<ActIf(<<Cond(NoRef, "EQUAL", JsonValue("1"))>>,
            <<ActSetResponse("R1")>>,
            <<ActSetResponse("R2")>>)>>

\* a JSON literal that does not decode
HookBadJson ==
    <<ActCounter("k", 1),
      ActIf(<<Cond(CounterValue("k"), "EQUAL", JsonValue("{"))>>,
            <<ActSetResponse("R1")>>,
            <<ActSetResponse("R2")>>)>>

\* a single Counter action
HookCount == <<ActCounter("k", 1)>>

\* an ordering comparison of null with null
HookNullOrder ==
    <<ActIf(<<Cond(JsonValue("null"), "GREATER_THAN_OR_EQUAL", JsonValue("null"))>>,
            <<ActSetResponse("R1")>>,
            <<ActSetResponse("R2")>>)>>

\* a condition on a top-level field of the request
HookField ==
    <<ActIf(<<Cond(RequestField("key"), "EQUAL", JsonValue("\"a\""))>>,
            <<ActSetResponse("R1")>>,
            <<ActSetResponse("R2")>>)>>

\* a session of n calls, call p made with hook hooks[p]
Session(n, hooks) == [n |-> n, hooks |-> hooks]

\* the hook of run p when the session's runs take their hooks from hs in turn
InTurn(hs) == [p \in Procs |-> hs[((p - 1) % Len(hs)) + 1]]

\* S3: every run is a call of the operation the S3 hook is installed on
ConfigS3 == [p \in Procs |-> HookS3]

\* S4: one waiter, one signaller; the other runs are calls of the operation
\* the S2 hook is installed on
ConfigS4 ==
    [p \in Procs |-> IF p = 1 THEN HookA ELSE IF p = 2 THEN HookB ELSE HookS2]

\* S5: two waiters and one SignalAll; the other runs are calls of the
\* operation the S2 hook is installed on
ConfigS5 ==
    [p \in Procs |-> IF p <= 2 THEN HookA ELSE IF p = 3 THEN HookC ELSE HookS2]

\* two waiters and one run that signals a single waiter
ConfigFifo ==
    [p \in Procs |-> IF p <= 2 THEN HookA ELSE IF p = 3 THEN HookB ELSE HookS2]

\* a waiter inside a branch, released by a SignalAll
ConfigNested ==
    [p \in Procs |->
        IF p = 1 THEN HookNestedWait ELSE IF p = 2 THEN HookC ELSE HookUnset]

\* one waiter; the other runs add to a counter no run has touched
ConfigCount == [p \in Procs |-> IF p = 1 THEN HookA ELSE HookCount]

\* the sessions the model explores
Configs ==
    { Session(NumRuns, ConfigS3),
      Session(NumWaitRuns, ConfigS4),
      Session(NumWaitRuns, ConfigS5),
      Session(NumWaitRuns, ConfigFifo),
      Session(NumWaitRuns, ConfigNested),
      Session(NumWaitRuns, ConfigCount),
      Session(NumWaitRuns, InTurn(<<HookShort, HookLate, HookAllTrue>>)),
      Session(NumWaitRuns, InTurn(<<HookBadOp, HookBadRef, HookBadJson>>)),
      Session(NumWaitRuns, InTurn(<<HookNullOrder, HookField>>)),
      Session(NumRuns, InTurn(<<HookTree1, HookTree2, HookTree3, HookTree4>>)),
      Session(NumRuns, InTurn(<<HookEmpty, HookBadDetail, HookOkCode, HookGoodDetail>>)) }

(* ---------------------------------------------------------------------- *)
(* State                                                                   *)
(* ---------------------------------------------------------------------- *)

VARIABLES
    hook,          \* run -> the hook its run-state is bound to (runState.Hook)
    pc,            \* run -> where the invocation of Run is ("absent": no such call)
    stack,         \* run -> the frames of runActions, the innermost last
    resp,          \* run -> the response of runActions, then of Run
    err,           \* run -> the error of runActions, then of Run
    cancelAt,      \* run -> its ctx was cancelled: "no", "parked" (in Wait), "elsewhere"
    runLock,       \* the session's run-slot is taken
    counters,      \* the registry of counters: id -> value
    barriers,      \* the registry of barriers: id -> queue of waiting run ids
    signalled,     \* run -> a signal was delivered to its waiter
    pending,       \* run -> the waiters it popped and has yet to deliver to
    handlerCalls,  \* run -> number of calls of its downstream handler
    trace,         \* run -> the outcomes of the actions it ran, in order
    sequential,    \* every run so far began after all earlier ones had returned
    arrivals,      \* barrier id -> run ids in the order their Wait calls arrived
    waitRes,       \* run -> what its last Wait returned
    sigSince,      \* run -> a signal on its barrier ran since it queued
    cobj,          \* counter id -> the run that made the Counter registered for it
    cref,          \* run -> the Counter its lookup returned (its maker), 0: none
    applied,       \* counter id -> sum of the deltas of the Updates that returned
    handlerIO,     \* run -> what its handler was called with and returned
    agentBuckets,  \* bucket name -> the settings the cluster agent stores for it
    requested,     \* bucket name -> ReplicaIndexes as the last request for it asked
    listed,        \* the buckets of the last ListBuckets response, "none" before
    listedFor,     \* requested, as it was when that response was made
    adminCode,     \* the status code of the last bucket admin response
    lt,            \* the cluster snapshot ComputeTopology is called with
    rt,            \* the remote topology ComputeTopology is called with
    topology,      \* what the call of ComputeTopology did, "none" before it
    status         \* the status the last error-handler constructor made

\* the state of the hooks of one session
hookVars == <<hook, pc, stack, resp, err, cancelAt, runLock, counters, barriers,
              signalled, pending, handlerCalls, trace, sequential, arrivals,
              waitRes, sigSince, cobj, cref, applied, handlerIO>>

\* the state of the bucket admin service, of the topology computation and
\* of the error handler
adminVars == <<agentBuckets, requested, listed, listedFor, adminCode>>
topoVars == <<lt, rt, topology>>
statusVars == <<status>>

vars == <<hookVars, adminVars, topoVars, statusVars>>

\* the (ctx, req) that call p of Run is made with
CallArgs(p) == [ctx |-> p, req |-> p]

\* a handler that was not called
NoCall == [ctx |-> 0, req |-> 0, resp |-> NilResp, err |-> NoErr]

\* what a downstream handler may return
HandlerResults ==
    { [resp |-> "Rh", err |-> NoErr],
      [resp |-> NilResp, err |-> StatusErr("UNAVAILABLE", "down")] }

\* no bucket request was made, no topology computed, no status made
AdminIdle ==
    /\ agentBuckets = <<>> /\ requested = <<>>
    /\ listed = [made |-> FALSE, buckets |-> <<>>] /\ listedFor = <<>>
    /\ adminCode = "OK"
TopoIdle ==
    /\ lt = [Members |-> <<>>]
    /\ rt = [VbucketRouting |-> [nil |-> TRUE, NumVbuckets |-> 0]]
    /\ topology = [state |-> "none"]
StatusIdle == status = [made |-> FALSE]

\* a session with the calls of c still to be made
HooksStart(c) ==
    /\ hook = c.hooks
    /\ pc = [p \in Procs |-> IF p <= c.n THEN "acquire" ELSE "absent"]
    /\ stack = [p \in Procs |-> <<>>]
    /\ resp = [p \in Procs |-> NilResp]
    /\ err = [p \in Procs |-> NoErr]
    /\ cancelAt = [p \in Procs |-> "no"]
    /\ runLock = FALSE
    /\ counters = <<>>
    /\ barriers = <<>>
    /\ signalled = [p \in Procs |-> FALSE]
    /\ pending = [p \in Procs |-> <<>>]
    /\ handlerCalls = [p \in Procs |-> 0]
    /\ trace = [p \in Procs |-> <<>>]
    /\ sequential = TRUE
    /\ arrivals = <<>>
    /\ waitRes = [p \in Procs |-> "none"]
    /\ sigSince = [p \in Procs |-> FALSE]
    /\ cobj = <<>>
    /\ cref = [p \in Procs |-> 0]
    /\ applied = <<>>
    /\ handlerIO = [p \in Procs |-> NoCall]

\* a session in which no call is made
HooksIdle == HooksStart(Session(0, [p \in Procs |-> <<>>]))

Init ==
    /\ \E c \in Configs : HooksStart(c)
    /\ AdminIdle /\ TopoIdle /\ StatusIdle

(* ---------------------------------------------------------------------- *)
(* The run-slot and the barriers of the hooks context                      *)
(* ---------------------------------------------------------------------- *)

\* HooksContext.acquireRunLock(ctx): the ways the call can return. It takes
\* the slot when the slot is free and fails with ctx.Err() when ctx is
\* cancelled; when both hold either may happen.
acquireRunLock(lock, ctxDone) ==
    (IF ~lock THEN {"ok"} ELSE {}) \cup (IF ctxDone THEN {"cancelled"} ELSE {})

\* HooksContext.releaseRunLock(): the slot afterwards. It takes no run id:
\* the slot is free afterwards whoever held it.
releaseRunLock(lock) == FALSE

\* HooksContext.GetBarrier / getBarrierLocked: the registry after a lookup
\* of id, which creates the barrier with an empty queue when it is missing
GetBarrier(bs, id) == IF id \in DOMAIN bs THEN bs ELSE bs @@ (id :> <<>>)

\* Barrier.Wait: the queue once the waiter is pushed
BarrierPush(q, w) == Append(q, w)

\* a cancelled Wait that leaves its waiter on the queue
BarrierRemoveNone(q, w) == q

\* Barrier.Wait on cancellation: the queue once the waiter is removed
BarrierRemove(q, w) == SelectSeq(q, LAMBDA x : x # w)

\* Barrier.TrySignalAny: pops the oldest waiter, if any
TrySignalAny(q) ==
    IF q = <<>> THEN [queue |-> q, popped |-> <<>>]
    ELSE [queue |-> Tail(q), popped |-> <<Head(q)>>]

\* Barrier.SignalAll: swaps the queue with an empty one
SignalAll(q) == [queue |-> <<>>, popped |-> q]

\* the two calls taken the wrong way round
SignalBarrierSwapped(all, q) == IF all THEN TrySignalAny(q) ELSE SignalAll(q)

\* a signal that wakes a single waiter whatever the action's flag
SignalBarrierAnyOnly(all, q) == TrySignalAny(q)

\* runAction_SignalBarrier: SignalAll or TrySignalAny, per the action's flag
SignalBarrierCall(all, q) == IF all THEN SignalAll(q) ELSE TrySignalAny(q)

(* ---------------------------------------------------------------------- *)
(* runActions: the list loop over frames                                   *)
(* ---------------------------------------------------------------------- *)

Frame(actions) == [actions |-> actions, respOut |-> NilResp]

\* a loop that overwrites respOut with every action's response
MergeRespAlways(respOut, r) == r

\* runActions: "if resp != nil { respOut = resp }"
MergeResp(respOut, r) == IF r # NilResp THEN r ELSE respOut

\* runActions returning to the loop that called it through runAction_If:
\* every finished inner frame hands its respOut to the frame below
RECURSIVE Unwind(_)
Unwind(stk) ==
    LET n == Len(stk) IN
    IF n <= 1 \/ stk[n].actions # <<>> THEN stk
    ELSE Unwind([i \in 1..(n - 1) |->
                    IF i = n - 1
                    THEN [stk[i] EXCEPT !.respOut = MergeResp(@, stk[n].respOut)]
                    ELSE stk[i]])

\* the outermost runActions has returned
Finished(stk) == Len(stk) = 1 /\ stk[1].actions = <<>>

\* the action the run-state is about to run
CurAction(p) == Head(stack[p][Len(stack[p])].actions)

\* the frames once the current action is taken off its list
Advance(stk) == [stk EXCEPT ![Len(stk)].actions = Tail(@)]

\* the frames after an action returned (r, nil)
AfterResp(stk, r) ==
    Unwind([Advance(stk) EXCEPT ![Len(stk)].respOut = MergeResp(@, r)])

\* a Run that tests the error alone
NeedsHandlerNoErr(r, e) == e = NoErr

\* a Run that tests the response alone
NeedsHandlerNoResp(r, e) == r = NilResp

\* Run: "if resp == nil && err == nil" the handler runs
NeedsHandler(r, e) == r = NilResp /\ e = NoErr

\* a loop that skips an action that failed and goes on with the next
OutcomeSkipsError(p, r, e) ==
    /\ trace' = [trace EXCEPT ![p] =
                   Append(@, [kind |-> CurAction(p).kind, code |-> CurAction(p).code,
                              msg |-> CurAction(p).msg, resp |-> r, err |-> e])]
    /\ LET stk == AfterResp(stack[p], r) IN
       IF Finished(stk)
       THEN /\ pc' = [pc EXCEPT ![p] = "release"]
            /\ stack' = [stack EXCEPT ![p] = <<>>]
            /\ resp' = [resp EXCEPT ![p] = IF e # NoErr THEN NilResp
                                           ELSE stk[1].respOut]
            /\ err' = [err EXCEPT ![p] = e]
       ELSE /\ pc' = [pc EXCEPT ![p] = "run"]
            /\ stack' = [stack EXCEPT ![p] = stk]
            /\ UNCHANGED <<resp, err>>

\* The current action of p returned (r, e): runActions aborts on an error,
\* remembers a response, and goes on or returns.
Outcome(p, r, e) ==
    /\ trace' = [trace EXCEPT ![p] =
                   Append(@, [kind |-> CurAction(p).kind, code |-> CurAction(p).code,
                              msg |-> CurAction(p).msg, resp |-> r, err |-> e])]
    /\ IF e # NoErr
       THEN /\ pc' = [pc EXCEPT ![p] = "release"]
            /\ stack' = [stack EXCEPT ![p] = <<>>]
            /\ resp' = [resp EXCEPT ![p] = NilResp]
            /\ err' = [err EXCEPT ![p] = e]
       ELSE LET stk == AfterResp(stack[p], r) IN
            IF Finished(stk)
            THEN /\ pc' = [pc EXCEPT ![p] = "release"]
                 /\ stack' = [stack EXCEPT ![p] = <<>>]
                 /\ resp' = [resp EXCEPT ![p] = stk[1].respOut]
                 /\ err' = [err EXCEPT ![p] = NoErr]
            ELSE /\ pc' = [pc EXCEPT ![p] = "run"]
                 /\ stack' = [stack EXCEPT ![p] = stk]
                 /\ UNCHANGED <<resp, err>>

Running(p, kind) ==
    /\ pc[p] = "run"
    /\ CurAction(p).kind = kind

(* ---------------------------------------------------------------------- *)
(* Actions                                                                 *)
(* ---------------------------------------------------------------------- *)

\* the ctx of run p is cancelled
CtxDone(p) == cancelAt[p] # "no"

\* run q has taken the run-slot at least once and has not returned: a run
\* that has not is a call still to be made, or one waiting for the slot
Active(q) == pc[q] \notin {"absent", "acquire", "done"}

\* the ctx of a run is cancelled. A ctx is read at the three places that
\* block only, and by the run itself, so a cancellation at any other moment
\* is the one at the next such place, and one between the release of the
\* slot and the push on the barrier's queue is the one after the push.
Cancel(p) ==
    /\ pc[p] \in {"acquire", "parked", "reacquire"}
    /\ ~CtxDone(p)
    /\ Cardinality({q \in Procs : CtxDone(q)}) < MaxCancels
    /\ cancelAt' = [cancelAt EXCEPT
                       ![p] = IF pc[p] = "parked" THEN "parked" ELSE "elsewhere"]
    /\ UNCHANGED <<adminVars, topoVars, statusVars, hook, cobj, cref, applied, handlerIO,
                   pc, stack, resp, err, runLock, counters, barriers,
                   signalled, pending, handlerCalls, trace, sequential,
                   arrivals, waitRes, sigSince>>

\* a Run that starts its actions without waiting for the slot
AcquireWithoutSlot(p) ==
    /\ pc[p] = "acquire"
    /\ runLock' = TRUE
    /\ sequential' = (sequential /\ \A q \in Procs : ~Active(q))
    /\ IF hook[p] = <<>>
       THEN /\ pc' = [pc EXCEPT ![p] = "release"]
            /\ UNCHANGED stack
       ELSE /\ pc' = [pc EXCEPT ![p] = "run"]
            /\ stack' = [stack EXCEPT ![p] = <<Frame(hook[p])>>]
    /\ UNCHANGED <<adminVars, topoVars, statusVars, hook, cobj, cref, applied, handlerIO,
                   resp, err, cancelAt, counters, barriers, signalled,
                   pending, handlerCalls, trace, arrivals, waitRes, sigSince>>

\* Run: acquireRunLock succeeds and runActions starts on the hook's actions
Acquire(p) ==
    /\ pc[p] = "acquire"
    /\ "ok" \in acquireRunLock(runLock, CtxDone(p))
    /\ runLock' = TRUE
    /\ sequential' = (sequential /\ \A q \in Procs : ~Active(q))
    /\ IF hook[p] = <<>>
       THEN /\ pc' = [pc EXCEPT ![p] = "release"]
            /\ UNCHANGED stack
       ELSE /\ pc' = [pc EXCEPT ![p] = "run"]
            /\ stack' = [stack EXCEPT ![p] = <<Frame(hook[p])>>]
    /\ UNCHANGED <<adminVars, topoVars, statusVars, hook, cobj, cref, applied, handlerIO,
                   resp, err, cancelAt, counters, barriers, signalled,
                   pending, handlerCalls, trace, arrivals, waitRes, sigSince>>

\* a Run that goes on to its releaseRunLock when acquireRunLock fails
AcquireFailReleases(p) ==
    /\ pc[p] = "acquire"
    /\ "cancelled" \in acquireRunLock(runLock, CtxDone(p))
    /\ pc' = [pc EXCEPT ![p] = "release"]
    /\ err' = [err EXCEPT ![p] = CtxErr]
    /\ UNCHANGED <<adminVars, topoVars, statusVars, hook, cobj, cref, applied, handlerIO, stack, resp, cancelAt,
                   runLock, counters, barriers, signalled, pending,
                   handlerCalls, trace, sequential, arrivals, waitRes,
                   sigSince>>

\* Run: acquireRunLock fails and Run returns its error
AcquireFail(p) ==
    /\ pc[p] = "acquire"
    /\ "cancelled" \in acquireRunLock(runLock, CtxDone(p))
    /\ pc' = [pc EXCEPT ![p] = "done"]
    /\ err' = [err EXCEPT ![p] = CtxErr]
    /\ UNCHANGED <<adminVars, topoVars, statusVars, hook, cobj, cref, applied, handlerIO,
                   stack, resp, cancelAt, runLock, counters, barriers,
                   signalled, pending, handlerCalls, trace, sequential,
                   arrivals, waitRes, sigSince>>


\* an If that runs the sublist its conditions did not select
BranchSwapped(a, ok) == IF ok THEN a.noMatch ELSE a.match

\* runAction_If: "if ok" the Match sublist runs, else the NoMatch sublist
Branch(a, ok) == IF ok THEN a.match ELSE a.noMatch

\* runAction_If: the conditions, then the sublist they select
RunIf(p) ==
    /\ Running(p, "If")
    /\ LET a == CurAction(p)
           c == checkConditions(a.cond, counters)
       IN  /\ counters' = c.cs
           /\ cobj' = [id \in DOMAIN c.cs |->
                          IF id \in DOMAIN cobj THEN cobj[id] ELSE p]
           /\ IF c.err # NoErr
              THEN Outcome(p, NilResp, c.err)
              ELSE LET stk == Unwind(Append(Advance(stack[p]),
                                            Frame(Branch(a, c.ok))))
                   IN  /\ UNCHANGED trace
                       /\ IF Finished(stk)
                          THEN /\ pc' = [pc EXCEPT ![p] = "release"]
                               /\ stack' = [stack EXCEPT ![p] = <<>>]
                               /\ resp' = [resp EXCEPT ![p] = stk[1].respOut]
                               /\ UNCHANGED err
                          ELSE /\ stack' = [stack EXCEPT ![p] = stk]
                               /\ UNCHANGED <<pc, resp, err>>
    /\ UNCHANGED <<adminVars, topoVars, statusVars, hook, cref, applied, handlerIO, cancelAt, runLock, barriers,
                   signalled, pending, handlerCalls, sequential, arrivals,
                   waitRes, sigSince>>

\* runAction_Counter, getCounterLocked: the read of the registry, which
\* takes no lock of its own
RunCounter(p) ==
    /\ Running(p, "Counter")
    /\ cref' = [cref EXCEPT ![p] =
                   IF CurAction(p).id \in DOMAIN counters
                   THEN cobj[CurAction(p).id] ELSE 0]
    /\ pc' = [pc EXCEPT ![p] = "counter"]
    /\ UNCHANGED <<adminVars, topoVars, statusVars, hook, cobj, applied, handlerIO, stack, resp, err, cancelAt,
                   runLock, counters, barriers, signalled, pending,
                   handlerCalls, trace, sequential, arrivals, waitRes,
                   sigSince>>

\* runAction_Counter: after a lookup that missed, getCounterLocked stores a
\* fresh Counter; then Counter.Update adds the delta to the Counter the
\* lookup returned, which is in the registry still or was replaced there
CounterApply(p) ==
    /\ pc[p] = "counter"
    /\ LET id == CurAction(p).id
           delta == CurAction(p).delta
       IN  /\ IF cref[p] = 0
              THEN /\ counters' = CounterUpdate(CounterStore(counters, id), id, delta)
                   /\ cobj' = [i \in DOMAIN cobj \cup {id} |->
                                  IF i = id THEN p ELSE cobj[i]]
              ELSE /\ counters' = IF cobj[id] = cref[p]
                                  THEN CounterUpdate(counters, id, delta)
                                  ELSE counters
                   /\ UNCHANGED cobj
           /\ applied' = CounterUpdate(applied, id, delta)
    /\ cref' = [cref EXCEPT ![p] = 0]
    /\ Outcome(p, NilResp, NoErr)
    /\ UNCHANGED <<adminVars, topoVars, statusVars, hook, handlerIO, cancelAt, runLock, barriers, signalled,
                   pending, handlerCalls, sequential, arrivals, waitRes,
                   sigSince>>

\* runAction_SetResponse
RunSetResponse(p) ==
    /\ Running(p, "SetResponse")
    /\ Outcome(p, CurAction(p).value, NoErr)
    /\ UNCHANGED <<adminVars, topoVars, statusVars, hook, cobj, cref, applied, handlerIO,
                   cancelAt, runLock, counters, barriers, signalled,
                   pending, handlerCalls, sequential, arrivals, waitRes,
                   sigSince>>

\* runAction_ReturnError
RunReturnError(p) ==
    /\ Running(p, "ReturnError")
    /\ Outcome(p, NilResp, runAction_ReturnError(CurAction(p)))
    /\ UNCHANGED <<adminVars, topoVars, statusVars, hook, cobj, cref, applied, handlerIO,
                   cancelAt, runLock, counters, barriers, signalled,
                   pending, handlerCalls, sequential, arrivals, waitRes,
                   sigSince>>

\* runAction: an action of none of the six kinds
RunInvalid(p) ==
    /\ pc[p] = "run"
    /\ CurAction(p).kind \notin {"If", "Counter", "WaitOnBarrier", "SignalBarrier",
                                 "SetResponse", "ReturnError"}
    /\ Outcome(p, NilResp, PlainErr("invalid hook action type"))
    /\ UNCHANGED <<adminVars, topoVars, statusVars, hook, cobj, cref, applied, handlerIO,
                   cancelAt, runLock, counters, barriers, signalled,
                   pending, handlerCalls, sequential, arrivals, waitRes,
                   sigSince>>

\* the waiters of barrier id that a signal run by another run-state reaches:
\* those that called Wait and have not returned from it
Waiting(id) ==
    {q \in Procs : pc[q] = "parked" /\ CurAction(q).id = id}

\* a SignalBarrier that waits for a waiter to be queued
RunSignalBarrierWaits(p) ==
    /\ Running(p, "SignalBarrier")
    /\ LET a == CurAction(p)
           bs == GetBarrier(barriers, a.id)
           s == SignalBarrierCall(a.all, bs[a.id])
       IN  /\ s.popped # <<>>
           /\ barriers' = [bs EXCEPT ![a.id] = s.queue]
           /\ sigSince' = [q \in Procs |->
                             IF q \in Waiting(a.id) /\ q # p THEN TRUE ELSE sigSince[q]]
           /\ pc' = [pc EXCEPT ![p] = "sending"]
           /\ pending' = [pending EXCEPT ![p] = s.popped]
    /\ UNCHANGED <<adminVars, topoVars, statusVars, hook, cobj, cref, applied, handlerIO, stack, resp, err, trace,
                   cancelAt, runLock, counters, signalled, handlerCalls,
                   sequential, arrivals, waitRes>>

\* runAction_SignalBarrier: the lookup and the pop or the drain
RunSignalBarrier(p) ==
    /\ Running(p, "SignalBarrier")
    /\ LET a == CurAction(p)
           bs == GetBarrier(barriers, a.id)
           s == SignalBarrierCall(a.all, bs[a.id])
       IN  /\ barriers' = [bs EXCEPT ![a.id] = s.queue]
           /\ sigSince' = [q \in Procs |->
                             IF q \in Waiting(a.id) /\ q # p THEN TRUE ELSE sigSince[q]]
           /\ IF s.popped = <<>>
              THEN /\ Outcome(p, NilResp, NoErr)
                   /\ UNCHANGED pending
              ELSE /\ pc' = [pc EXCEPT ![p] = "sending"]
                   /\ pending' = [pending EXCEPT ![p] = s.popped]
                   /\ UNCHANGED <<stack, resp, err, trace>>
    /\ UNCHANGED <<adminVars, topoVars, statusVars, hook, cobj, cref, applied, handlerIO,
                   cancelAt, runLock, counters, signalled, handlerCalls,
                   sequential, arrivals, waitRes>>

\* Barrier.TrySignalAny / SignalAll: the payload is handed to a popped
\* waiter; after the last one runAction_SignalBarrier returns (nil, nil)
Deliver(p) ==
    /\ pc[p] = "sending"
    /\ signalled' = [signalled EXCEPT ![Head(pending[p])] = TRUE]
    /\ pending' = [pending EXCEPT ![p] = Tail(@)]
    /\ IF Tail(pending[p]) = <<>>
       THEN Outcome(p, NilResp, NoErr)
       ELSE UNCHANGED <<pc, stack, resp, err, trace>>
    /\ UNCHANGED <<adminVars, topoVars, statusVars, hook, cobj, cref, applied, handlerIO,
                   cancelAt, runLock, counters, barriers, handlerCalls,
                   sequential, arrivals, waitRes, sigSince>>

\* a WaitOnBarrier that keeps the run-slot while it waits
RunWaitKeepsSlot(p) ==
    /\ Running(p, "WaitOnBarrier")
    /\ barriers' = GetBarrier(barriers, CurAction(p).id)
    /\ pc' = [pc EXCEPT ![p] = "waitCall"]
    /\ UNCHANGED <<adminVars, topoVars, statusVars, hook, cobj, cref, applied, handlerIO, stack, resp, err,
                   cancelAt, runLock, counters, signalled, pending,
                   handlerCalls, trace, sequential, arrivals, waitRes,
                   sigSince>>

\* runAction_WaitOnBarrier: the lookup of the barrier and the release of the
\* run-slot
RunWaitOnBarrier(p) ==
    /\ Running(p, "WaitOnBarrier")
    /\ barriers' = GetBarrier(barriers, CurAction(p).id)
    /\ runLock' = releaseRunLock(runLock)
    /\ pc' = [pc EXCEPT ![p] = "waitCall"]
    /\ UNCHANGED <<adminVars, topoVars, statusVars, hook, cobj, cref, applied, handlerIO,
                   stack, resp, err, cancelAt, counters, signalled,
                   pending, handlerCalls, trace, sequential, arrivals,
                   waitRes, sigSince>>

\* Barrier.Wait: the waiter is pushed on the queue
WaitEnqueue(p) ==
    /\ pc[p] = "waitCall"
    /\ LET id == CurAction(p).id IN
       /\ barriers' = [barriers EXCEPT ![id] = BarrierPush(@, p)]
       /\ arrivals' = [GetBarrier(arrivals, id) EXCEPT ![id] = Append(@, p)]
    /\ pc' = [pc EXCEPT ![p] = "parked"]
    /\ signalled' = [signalled EXCEPT ![p] = FALSE]
    /\ sigSince' = [sigSince EXCEPT ![p] = FALSE]
    /\ waitRes' = [waitRes EXCEPT ![p] = "none"]
    /\ UNCHANGED <<adminVars, topoVars, statusVars, hook, cobj, cref, applied, handlerIO,
                   stack, resp, err, cancelAt, runLock, counters, pending,
                   handlerCalls, trace, sequential>>

\* a Wait that returns nil with no signal delivered
WaitReturnsUnsignalled(p) ==
    /\ pc[p] = "parked"
    /\ pc' = [pc EXCEPT ![p] = "reacquire"]
    /\ waitRes' = [waitRes EXCEPT ![p] = "ok"]
    /\ UNCHANGED <<adminVars, topoVars, statusVars, hook, cobj, cref, applied, handlerIO, stack, resp, err,
                   cancelAt, runLock, counters, barriers, signalled, pending,
                   handlerCalls, trace, sequential, arrivals, sigSince>>

\* Barrier.Wait returns nil: a signal was delivered
WaitSignalled(p) ==
    /\ pc[p] = "parked"
    /\ signalled[p]
    /\ pc' = [pc EXCEPT ![p] = "reacquire"]
    /\ waitRes' = [waitRes EXCEPT ![p] = "ok"]
    /\ UNCHANGED <<adminVars, topoVars, statusVars, hook, cobj, cref, applied, handlerIO,
                   stack, resp, err, cancelAt, runLock, counters, barriers,
                   signalled, pending, handlerCalls, trace, sequential,
                   arrivals, sigSince>>

\* Barrier.Wait returns the cancellation error: the waiter is removed from
\* the queue. runAction_WaitOnBarrier drops the value Wait returns.
WaitCancelled(p) ==
    /\ pc[p] = "parked"
    /\ CtxDone(p)
    /\ barriers' = [barriers EXCEPT ![CurAction(p).id] = BarrierRemove(@, p)]
    /\ pc' = [pc EXCEPT ![p] = "reacquire"]
    /\ waitRes' = [waitRes EXCEPT ![p] = "cancelled"]
    /\ UNCHANGED <<adminVars, topoVars, statusVars, hook, cobj, cref, applied, handlerIO,
                   stack, resp, err, cancelAt, runLock, counters,
                   signalled, pending, handlerCalls, trace, sequential,
                   arrivals, sigSince>>

\* runAction_WaitOnBarrier: acquireRunLock succeeds and the action returns
\* (nil, nil)
Reacquire(p) ==
    /\ pc[p] = "reacquire"
    /\ "ok" \in acquireRunLock(runLock, CtxDone(p))
    /\ runLock' = TRUE
    /\ Outcome(p, NilResp, NoErr)
    /\ UNCHANGED <<adminVars, topoVars, statusVars, hook, cobj, cref, applied, handlerIO,
                   cancelAt, counters, barriers, signalled, pending,
                   handlerCalls, sequential, arrivals, waitRes, sigSince>>

\* runAction_WaitOnBarrier: acquireRunLock fails and the action returns its
\* error
ReacquireFail(p) ==
    /\ pc[p] = "reacquire"
    /\ "cancelled" \in acquireRunLock(runLock, CtxDone(p))
    /\ Outcome(p, NilResp, CtxErr)
    /\ UNCHANGED <<adminVars, topoVars, statusVars, hook, cobj, cref, applied, handlerIO,
                   cancelAt, runLock, counters, barriers, signalled,
                   pending, handlerCalls, sequential, arrivals, waitRes,
                   sigSince>>

\* a Run that calls the handler before it gives the slot back
ReleaseKeepsSlot(p) ==
    /\ pc[p] = "release"
    /\ pc' = [pc EXCEPT ![p] = IF NeedsHandler(resp[p], err[p]) THEN "handler" ELSE "done"]
    /\ UNCHANGED <<adminVars, topoVars, statusVars, hook, cobj, cref, applied, handlerIO, runLock,
                   stack, resp, err, cancelAt, counters, barriers,
                   signalled, pending, handlerCalls, trace, sequential,
                   arrivals, waitRes, sigSince>>

\* Run: releaseRunLock after runActions, then the choice between the
\* handler and the result of the actions
Release(p) ==
    /\ pc[p] = "release"
    /\ runLock' = releaseRunLock(runLock)
    /\ pc' = [pc EXCEPT ![p] = IF NeedsHandler(resp[p], err[p]) THEN "handler" ELSE "done"]
    /\ UNCHANGED <<adminVars, topoVars, statusVars, hook, cobj, cref, applied, handlerIO,
                   stack, resp, err, cancelAt, counters, barriers,
                   signalled, pending, handlerCalls, trace, sequential,
                   arrivals, waitRes, sigSince>>

\* a Run that turns the handler's error into a status of its own
HandlerWrapsError(p) ==
    /\ pc[p] = "handler"
    /\ handlerCalls' = [handlerCalls EXCEPT ![p] = @ + 1]
    /\ \E h \in HandlerResults :
         /\ resp' = [resp EXCEPT ![p] = h.resp]
         /\ err' = [err EXCEPT ![p] =
                       IF h.err = NoErr THEN NoErr
                       ELSE StatusErr("INTERNAL", h.err.msg)]
         /\ handlerIO' = [handlerIO EXCEPT ![p] =
                             [ctx |-> CallArgs(p).ctx, req |-> CallArgs(p).req,
                              resp |-> h.resp, err |-> h.err]]
    /\ pc' = [pc EXCEPT ![p] = "done"]
    /\ UNCHANGED <<adminVars, topoVars, statusVars, hook, cobj, cref, applied, stack, cancelAt, runLock,
                   counters, barriers, signalled, pending, trace, sequential,
                   arrivals, waitRes, sigSince>>

\* Run: the downstream handler runs and Run returns what it returns
Handler(p) ==
    /\ pc[p] = "handler"
    /\ handlerCalls' = [handlerCalls EXCEPT ![p] = @ + 1]
    /\ \E h \in HandlerResults :
         /\ resp' = [resp EXCEPT ![p] = h.resp]
         /\ err' = [err EXCEPT ![p] = h.err]
         /\ handlerIO' = [handlerIO EXCEPT ![p] =
                             [ctx |-> CallArgs(p).ctx, req |-> CallArgs(p).req,
                              resp |-> h.resp, err |-> h.err]]
    /\ pc' = [pc EXCEPT ![p] = "done"]
    /\ UNCHANGED <<adminVars, topoVars, statusVars, hook, cobj, cref, applied, stack, cancelAt, runLock, counters, barriers, signalled,
                   pending, trace, sequential, arrivals, waitRes, sigSince>>

\* the steps of run p itself
Step(p) ==
    \/ Acquire(p) \/ AcquireFail(p)
    \/ RunIf(p) \/ RunCounter(p) \/ CounterApply(p) \/ RunSetResponse(p) \/ RunReturnError(p)
    \/ RunInvalid(p) \/ RunSignalBarrier(p) \/ Deliver(p)
    \/ RunWaitOnBarrier(p) \/ WaitEnqueue(p) \/ WaitSignalled(p)
    \/ WaitCancelled(p) \/ Reacquire(p) \/ ReacquireFail(p)
    \/ Release(p) \/ Handler(p)

Next == \E p \in Procs : Cancel(p) \/ Step(p)

Spec == Init /\ [][Next]_vars

\* a step of the calls themselves: every step but the cancellation of a ctx
Progress == \E p \in Procs : Step(p)

\* the sessions of the scenarios that expect calls to return in the end
\* (S4, S5), and the session of the nested wait
FairInit == Init /\ hook \in {ConfigS4, ConfigS5, ConfigNested}

\* the runtime keeps running goroutines while one of them can take a step;
\* a ctx need never be cancelled
FairSpec == FairInit /\ [][Next]_vars /\ WF_vars(Progress)

(* ---------------------------------------------------------------------- *)
(* Properties                                                              *)
(* ---------------------------------------------------------------------- *)

\* the run-states that are executing actions under the run-slot
Executing == {p \in Procs : pc[p] \in {"run", "counter", "sending"}}

\* acquireRunLock failed in Run: no action ran and Run returned ctx.Err()
AcquireFailed(p) == pc[p] = "done" /\ trace[p] = <<>> /\ err[p] = CtxErr

\* no action of the trace produced a response or an error
Silent(t) == \A i \in DOMAIN t : t[i].resp = NilResp /\ t[i].err = NoErr

\* the indices of the actions of a trace that produced an error
Errors(t) == {i \in DOMAIN t : t[i].err # NoErr}

\* the response of the last action of a trace that produced one
LastResp(t) ==
    LET I == {i \in DOMAIN t : t[i].resp # NilResp} IN
    IF I = {} THEN NilResp ELSE t[CHOOSE i \in I : \A j \in I : j <= i].resp

\* runActions has returned to Run and Run holds its result
ActionsReturned(p) ==
    \/ pc[p] \in {"release", "handler"}
    \/ pc[p] = "done" /\ handlerCalls[p] = 0 /\ ~AcquireFailed(p)

\* C1: at most one run-state of the session is executing non-wait actions,
\* in every interleaving, cancellations during a wait or a re-acquire
\* included.
C1_RunSlotMutex == Cardinality(Executing) <= 1

\* C2: a Run that acquired the run-slot calls the downstream handler exactly
\* once when no action it ran produced a response or an error, and never
\* when some action produced one.
C2_HandlerIffSilent ==
    \A p \in Procs :
        /\ handlerCalls[p] <= 1
        /\ pc[p] # "done" => handlerCalls[p] = 0
        /\ pc[p] = "handler" => Silent(trace[p])
        /\ (pc[p] = "done" /\ ~AcquireFailed(p)) =>
               handlerCalls[p] = (IF Silent(trace[p]) THEN 1 ELSE 0)

\* C2's case: one run returned through the handler after running actions,
\* another returned an action's error without calling it, a third an
\* action's response
C2_Witness ==
    \E p, q, r \in Procs :
        /\ pc[p] = "done" /\ trace[p] # <<>> /\ handlerCalls[p] = 1
        /\ pc[q] = "done" /\ Errors(trace[q]) # {} /\ handlerCalls[q] = 0
        /\ pc[r] = "done" /\ Errors(trace[r]) = {} /\ ~Silent(trace[r])
        /\ handlerCalls[r] = 0

\* C6: every ReturnError action that ran produced the error of its code and
\* message, and its Run returns that error, no response, and does not call
\* the handler.
C6_ReturnErrorAlwaysErrors ==
    \A p \in Procs : \A i \in DOMAIN trace[p] :
        trace[p][i].kind = "ReturnError" =>
            /\ trace[p][i].err = StatusErr(trace[p][i].code, trace[p][i].msg)
            /\ pc[p] # "handler"
            /\ pc[p] = "done" =>
                   /\ err[p] = StatusErr(trace[p][i].code, trace[p][i].msg)
                   /\ resp[p] = NilResp
                   /\ handlerCalls[p] = 0

\* C7: once runActions has returned to Run, its result is the first error
\* and no response when an action failed (and no action ran after the
\* failure), and otherwise the response of the last action that produced
\* one, or none when no action did.
C7_TreeOutcome ==
    \A p \in Procs :
        /\ \A i \in Errors(trace[p]) : i = Len(trace[p])
        /\ ActionsReturned(p) =>
               IF Errors(trace[p]) # {}
               THEN resp[p] = NilResp /\ err[p] = trace[p][Len(trace[p])].err
               ELSE resp[p] = LastResp(trace[p]) /\ err[p] = NoErr

\* C7's case: a response survived a later branch that set none, a nested
\* response overwrote earlier ones, and an error dropped an earlier response
C7_Witness ==
    \E p, q, r \in Procs :
        /\ hook[p] = HookTree1 /\ pc[p] = "done" /\ resp[p] = "R1"
        /\ Len(trace[p]) = 2
        /\ hook[q] = HookTree2 /\ pc[q] = "done" /\ resp[q] = "R3"
        /\ Len(trace[q]) = 5
        /\ hook[r] = HookTree3 /\ pc[r] = "done" /\ resp[r] = NilResp
        /\ err[r] = StatusErr("ABORTED", "stop") /\ Len(trace[r]) = 3

\* no ctx of the session has been cancelled
NoCancel == \A q \in Procs : ~CtxDone(q)

\* the run ids queued on barrier id
Queued(id) ==
    IF id \in DOMAIN barriers
    THEN {barriers[id][i] : i \in DOMAIN barriers[id]}
    ELSE {}

\* S4's expectation: A returned Ra and B returned Rb, both without error
S4Returned ==
    /\ pc[1] = "done" /\ resp[1] = "Ra" /\ err[1] = NoErr
    /\ pc[2] = "done" /\ resp[2] = "Rb" /\ err[2] = NoErr

\* C3, as stated: with hook A and hook B invoked concurrently and no ctx
\* cancelled, in every interleaving A eventually returns Ra and B returns Rb.
C3_RendezvousAlways ==
    (hook = ConfigS4) => <>(~NoCancel \/ S4Returned)

\* C3, amended: when A is queued on b at the moment B is about to run its
\* SignalBarrier, and no ctx is cancelled, A eventually returns Ra and B
\* returns Rb.
C3_RendezvousWhenQueued ==
    (hook = ConfigS4 /\ NoCancel /\ 1 \in Queued("b") /\ Running(2, "SignalBarrier"))
        ~> (~NoCancel \/ S4Returned)

\* C3's case: the rendezvous took place, B's signal popped A, and both returned
C3_Witness ==
    /\ hook = ConfigS4 /\ NoCancel /\ S4Returned
    /\ waitRes[1] = "ok" /\ sigSince[1]

\* an action ran after a WaitOnBarrier of the same run-state returned
SuffixRan(p) ==
    \E i \in DOMAIN trace[p] :
        trace[p][i].kind = "WaitOnBarrier" /\ trace[p][i].err = NoErr
        /\ i < Len(trace[p])

\* C4: a run-state runs no action of the suffix of its WaitOnBarrier(b)
\* unless another run-state ran a SignalBarrier(b) after it queued on b.
C4_SuffixAfterSignal == \A p \in Procs : SuffixRan(p) => sigSince[p]

\* C5: a run whose ctx is cancelled while it is parked in WaitOnBarrier,
\* before any signal on the barrier, runs no later action, returns the
\* cancellation error and no response, and does not call the handler.
C5_CancelledWaitFails ==
    \A p \in Procs :
        (cancelAt[p] = "parked" /\ waitRes[p] = "cancelled" /\ ~sigSince[p]) =>
            /\ pc[p] \in {"reacquire", "release", "done"}
            /\ pc[p] \in {"release", "done"} => err[p] = CtxErr /\ resp[p] = NilResp
            /\ handlerCalls[p] = 0

\* the runs that have returned
Returned == {p \in Procs : pc[p] = "done"}

\* C8: with the S3 hook and sequential calls in a fresh session, the first
\* three calls return R1, every later one returns RESOURCE_EXHAUSTED, the
\* counter n counts the calls up to 3 and stays there, and the handler is
\* never invoked. (Calls return in the order they are made, so at every
\* moment the calls that returned R1 are the first three to return.)
C8_ConditionalCounter ==
    (hook = ConfigS3 /\ sequential /\ NoCancel) =>
        /\ \A p \in Procs : handlerCalls[p] = 0 /\ pc[p] # "handler"
        /\ \A p \in Returned :
             \/ resp[p] = "R1" /\ err[p] = NoErr
             \/ resp[p] = NilResp /\ err[p] = StatusErr("RESOURCE_EXHAUSTED", "full")
        /\ Cardinality({p \in Returned : resp[p] = "R1"}) =
               (IF Cardinality(Returned) <= 3 THEN Cardinality(Returned) ELSE 3)
        /\ (\A p \in Procs : ~Active(p)) =>
               CounterGet(counters, "n") =
                   (IF Cardinality(Returned) <= 3 THEN Cardinality(Returned) ELSE 3)

\* C8's case: four sequential calls have returned, the fourth with the error
C8_Witness ==
    /\ hook = ConfigS3 /\ sequential /\ NoCancel
    /\ Cardinality(Returned) = 4
    /\ Cardinality({p \in Returned : resp[p] = "R1"}) = 3
    /\ \E p \in Returned : err[p] = StatusErr("RESOURCE_EXHAUSTED", "full")
    /\ counters["n"] = 3

\* S5's setting: both waiters are queued on b and the third run is about to
\* run SignalBarrier(b, all=true)
S5Armed ==
    /\ hook = ConfigS5 /\ NoCancel
    /\ {1, 2} \subseteq Queued("b")
    /\ Running(3, "SignalBarrier")

\* S5's expectation: both waiters returned Ra
S5Returned ==
    \A p \in {1, 2} :
        pc[p] = "done" /\ resp[p] = "Ra" /\ err[p] = NoErr /\ handlerCalls[p] = 0

\* C9: when two waiters are queued on b and a third run executes
\* SignalBarrier(b, all=true), both waiters are released, re-acquire the
\* run-slot in turn and eventually return Ra (S5: no ctx is cancelled).
C9_SignalAllFanOut == S5Armed ~> (~NoCancel \/ S5Returned)

\* C9's case: the SignalAll popped both waiters at once
C9_Witness ==
    /\ hook = ConfigS5 /\ NoCancel
    /\ pc[3] = "sending" /\ Len(pending[3]) = 2

\* the place of run id w in a sequence of run ids
Pos(seq, w) == CHOOSE i \in DOMAIN seq : seq[i] = w

\* the waiters of every barrier are queued in the order their Waits arrived
QueueInArrivalOrder ==
    \A id \in DOMAIN barriers :
        \A i, j \in DOMAIN barriers[id] :
            i < j => Pos(arrivals[id], barriers[id][i]) < Pos(arrivals[id], barriers[id][j])

\* a TrySignalAny by p on a non-empty barrier pops the waiter that arrived
\* first and leaves the others as they were
TrySignalPopsOldest(p) ==
    LET id == CurAction(p).id IN
    (/\ Running(p, "SignalBarrier")
     /\ ~CurAction(p).all
     /\ pc'[p] # "run" \/ trace'[p] # trace[p]
     /\ Queued(id) # {})
        => /\ pending'[p] = <<Head(barriers[id])>>
           /\ barriers'[id] = Tail(barriers[id])
           /\ \A w \in Queued(id) :
                  Pos(arrivals[id], Head(barriers[id])) <= Pos(arrivals[id], w)

\* C10: waiters are queued in the order their Wait calls arrive, and a
\* TrySignalAny on a non-empty barrier releases exactly the waiter queued
\* longest, leaving the order of the others unchanged.
C10_BarrierFifo ==
    /\ []QueueInArrivalOrder
    /\ [][\A p \in Procs : TrySignalPopsOldest(p)]_vars

\* C10's case: a TrySignalAny popped one waiter and left another queued
C10_Witness ==
    \E p \in Procs :
        /\ pc[p] = "sending" /\ ~CurAction(p).all
        /\ Len(pending[p]) = 1
        /\ Queued(CurAction(p).id) # {}

\* the waiters that signallers popped and have yet to hand the payload to
Popped == UNION {{pending[p][i] : i \in DOMAIN pending[p]} : p \in Procs}

\* the step is run p's SignalBarrier call
SignalStep(p) ==
    /\ Running(p, "SignalBarrier")
    /\ pc'[p] # "run" \/ trace'[p] # trace[p]

\* a SignalAll by p pops exactly the waiters queued on the barrier at the
\* call and leaves the queue empty
SignalAllDrains(p) ==
    LET id == CurAction(p).id IN
    (SignalStep(p) /\ CurAction(p).all) =>
        /\ barriers'[id] = <<>>
        /\ {pending'[p][i] : i \in DOMAIN pending'[p]} = Queued(id)
        /\ Len(pending'[p]) = Cardinality(Queued(id))
        /\ signalled' = signalled

\* a waiter still on the queue has not been released by any signal
QueuedNotReleased ==
    \A q \in Procs :
        (pc[q] = "parked" /\ q \in Queued(CurAction(q).id)) =>
            ~signalled[q] /\ q \notin Popped

\* a Wait returns only to a waiter a signal popped, or on cancellation
WaitReturnsOnSignalOrCancel(q) ==
    (pc[q] = "parked" /\ pc'[q] # "parked") =>
        \/ signalled[q] /\ q \notin Queued(CurAction(q).id)
        \/ CtxDone(q)

\* C11: a SignalAll releases exactly the waiters queued on the barrier at
\* the call and leaves the queue empty; a Wait that arrives later stays on
\* the queue, unreleased, until a later signal pops it or its ctx is
\* cancelled.
C11_SignalAllExact ==
    /\ []QueuedNotReleased
    /\ [][\A p \in Procs : SignalAllDrains(p) /\ WaitReturnsOnSignalOrCancel(p)]_vars

\* C11's case: the SignalAll released the waiter queued at the call, and the
\* waiter that arrived after it is parked on the queue
C11_Witness ==
    /\ hook = ConfigS5 /\ NoCancel
    /\ pc[3] = "done"
    /\ \E w, v \in {1, 2} :
         /\ waitRes[w] = "ok"
         /\ pc[v] = "parked" /\ v \in Queued("b") /\ ~signalled[v]

\* a signal by p on a barrier with no queued waiter changes nothing but the
\* position of p (the lookup registers the barrier, with an empty queue)
EmptySignalNoOp(p) ==
    LET id == CurAction(p).id IN
    (SignalStep(p) /\ Queued(id) = {}) =>
        /\ barriers'[id] = <<>>
        /\ \A i \in DOMAIN barriers : barriers'[i] = barriers[i]
        /\ \A q \in Procs \ {p} : pc'[q] = pc[q]
        /\ trace'[p] = Append(trace[p], [kind |-> "SignalBarrier", code |-> "",
                                          msg |-> "", resp |-> NilResp, err |-> NoErr])
        /\ UNCHANGED <<signalled, pending, counters, runLock, arrivals, waitRes,
                       handlerCalls, cancelAt>>

\* a waiter whose barrier saw no signal since it queued, and whose ctx is
\* not cancelled, stays parked
UnsignalledStaysParked(q) ==
    (pc[q] = "parked" /\ ~sigSince[q] /\ ~CtxDone(q)) => pc'[q] = "parked"

\* C12: signals are not buffered. A TrySignalAny or SignalAll on a barrier
\* with no queued waiter changes no state, and a Wait issued afterwards
\* blocks as long as no later signal runs.
C12_SignalsNotBuffered ==
    [][\A p \in Procs : EmptySignalNoOp(p) /\ UnsignalledStaysParked(p)]_vars

\* C12's case: B signalled the barrier while it was empty and returned, and
\* A queued afterwards and is parked
C12_Witness ==
    /\ hook = ConfigS4 /\ NoCancel
    /\ pc[2] = "done" /\ resp[2] = "Rb"
    /\ pc[1] = "parked" /\ 1 \in Queued("b") /\ ~sigSince[1]

\* the runs that called Wait on barrier id
Arrived(id) ==
    IF id \in DOMAIN arrivals
    THEN {arrivals[id][i] : i \in DOMAIN arrivals[id]}
    ELSE {}

\* the waiters of barrier id whose Wait returned the cancellation error
Gone(id) == {w \in Arrived(id) : waitRes[w] = "cancelled"}

\* no waiter whose Wait returned is on a queue
ReturnedNotQueued ==
    \A id \in DOMAIN barriers : \A w \in Queued(id) :
        pc[w] = "parked" /\ waitRes[w] = "none"

\* a TrySignalAny by p after a Wait on the barrier returned the
\* cancellation error: a no-op when no waiter is left, and otherwise the
\* release of the oldest of the waiters that are left
SignalAfterCancel(p) ==
    LET id == CurAction(p).id IN
    (SignalStep(p) /\ ~CurAction(p).all /\ Gone(id) # {}) =>
        IF Arrived(id) \ Gone(id) \subseteq {w \in Procs : waitRes[w] = "ok"} \cup Popped
        THEN /\ pending'[p] = <<>>
             /\ barriers'[id] = <<>>
             /\ signalled' = signalled
        ELSE \E w \in Queued(id) \ Gone(id) :
                /\ pending'[p] = <<w>>
                /\ \A v \in Queued(id) : Pos(arrivals[id], w) <= Pos(arrivals[id], v)
                /\ barriers'[id] = Tail(barriers[id])

\* C13: a waiter whose Wait returned the cancellation error is no longer on
\* the barrier's queue; a later TrySignalAny is a no-op when it was the only
\* waiter and releases the oldest waiter that was not cancelled otherwise.
C13_CancelledWaiterRemoved ==
    /\ []ReturnedNotQueued
    /\ [][\A p \in Procs : SignalAfterCancel(p)]_vars

\* C13's case: the older of two waiters was cancelled and returned, and a
\* TrySignalAny then popped the younger
C13_Witness ==
    /\ hook = ConfigFifo
    /\ "b" \in DOMAIN arrivals
    /\ \E w, v \in {1, 2} :
         /\ arrivals["b"] = <<w, v>>
         /\ waitRes[w] = "cancelled"
         /\ pc[3] = "sending" /\ pending[3] = <<v>>

\* the acquireRunLock of Run returned the cancellation error to run p: Run
\* returns it, with no response, and nothing else changes
AcquireCancelledNoEffect(p) ==
    (pc[p] = "acquire" /\ err'[p] = CtxErr) =>
        /\ CtxDone(p)
        /\ pc'[p] = "done"
        /\ resp'[p] = NilResp
        /\ UNCHANGED <<runLock, counters, cobj, applied, barriers, arrivals,
                       signalled, pending, stack, trace, handlerCalls,
                       handlerIO>>

\* a Run blocked on a taken slot whose ctx is cancelled can take one step
\* only, the return of the cancellation error; the Run that returned it ran
\* no action and did not call the handler
CancelledAtAcquire ==
    \A p \in Procs :
        /\ (pc[p] = "acquire" /\ CtxDone(p) /\ runLock) =>
               ~ENABLED Acquire(p) /\ ENABLED AcquireFail(p)
        /\ AcquireFailed(p) =>
               /\ resp[p] = NilResp /\ handlerCalls[p] = 0
               /\ handlerIO[p] = NoCall /\ stack[p] = <<>>

IfStep(p) == Running(p, "If") /\ stack'[p] # stack[p]

\* condition c, evaluated on its own, is true
Holds(c) ==
    checkCondition(c, counters).err = NoErr /\ checkCondition(c, counters).ok

\* the place of the first condition of the list that is not true, 0 if all are
FirstNotHolding(conds) ==
    IF \A i \in DOMAIN conds : Holds(conds[i]) THEN 0
    ELSE CHOOSE i \in DOMAIN conds :
            ~Holds(conds[i]) /\ \A j \in 1..(i - 1) : Holds(conds[j])

\* the counters the evaluation of condition c looks up: that of its left
\* side, and that of its right side when the left side resolved
Touched(c) ==
    (IF c.left.kind = "CounterValue" THEN {c.left.id} ELSE {})
        \cup (IF resolveValueRef(c.left, counters).err = NoErr
                  /\ c.right.kind = "CounterValue"
               THEN {c.right.id} ELSE {})

\* an If step evaluates the conditions up to the first that is not true and
\* no further: it fails with the error of that condition, or runs NoMatch
\* when that condition is false, or runs Match when every condition is true
ShortCircuitAnd(p) ==
    IfStep(p) =>
        LET a == CurAction(p)
            k == FirstNotHolding(a.cond)
            n == IF k = 0 THEN Len(a.cond) ELSE k
            stk == Unwind(Append(Advance(stack[p]),
                                 Frame(IF k = 0 THEN a.match ELSE a.noMatch)))
        IN  /\ DOMAIN counters' =
                   DOMAIN counters \cup UNION {Touched(a.cond[i]) : i \in 1..n}
            /\ \A id \in DOMAIN counters : counters'[id] = counters[id]
            /\ IF k # 0 /\ checkCondition(a.cond[k], counters).err # NoErr
               THEN /\ err'[p] = checkCondition(a.cond[k], counters).err
                    /\ resp'[p] = NilResp /\ pc'[p] = "release"
               ELSE /\ err'[p] = NoErr
                    /\ IF Finished(stk)
                       THEN pc'[p] = "release" /\ resp'[p] = stk[1].respOut
                       ELSE pc'[p] = "run" /\ stack'[p] = stk

\* C15: a condition list is a short-circuit AND evaluated in order: true iff
\* every condition is true (the empty list is true); after a false
\* condition no later one is evaluated, so a later condition that would
\* fail does not fail the hook and NoMatch runs.
C15_ShortCircuitAnd == [][\A p \in Procs : ShortCircuitAnd(p)]_vars

\* C15's case: NoMatch ran after a false condition that came before a
\* failing one, and the counter a skipped condition names was never created
C15_Witness ==
    \E p, q, r \in Procs :
        /\ hook[p] = HookShort /\ pc[p] = "done" /\ resp[p] = "R2" /\ err[p] = NoErr
        /\ hook[q] = HookLate /\ pc[q] = "done" /\ resp[q] = "R2" /\ err[q] = NoErr
        /\ hook[r] = HookAllTrue /\ pc[r] = "done" /\ resp[r] = "R1"
        /\ "k" \in DOMAIN counters /\ "z" \notin DOMAIN counters

\* C16: a Run that falls through calls the handler with the (ctx, request)
\* it was called with and returns exactly what the handler returned, errors
\* included; every Run of a hook with no action that got the slot does.
C16_HandlerVerbatim ==
    \A p \in Procs :
        /\ handlerCalls[p] = 0 => handlerIO[p] = NoCall
        /\ handlerCalls[p] > 0 =>
               /\ pc[p] = "done"
               /\ handlerIO[p].ctx = CallArgs(p).ctx
               /\ handlerIO[p].req = CallArgs(p).req
               /\ resp[p] = handlerIO[p].resp /\ err[p] = handlerIO[p].err
        /\ (hook[p] = <<>> /\ pc[p] = "done" /\ ~AcquireFailed(p)) =>
               handlerCalls[p] = 1

\* C16's case: a Run of the empty hook returned the handler's error, and a
\* Run that ran actions returned the handler's response
C16_Witness ==
    \E p, q \in Procs :
        /\ hook[p] = <<>> /\ pc[p] = "done" /\ handlerCalls[p] = 1
        /\ err[p] = StatusErr("UNAVAILABLE", "down") /\ resp[p] = NilResp
        /\ hook[q] # <<>> /\ pc[q] = "done" /\ handlerCalls[q] = 1
        /\ resp[q] = "Rh"

\* the sum of the deltas applied to counter id
Applied(id) == IF id \in DOMAIN applied THEN applied[id] ELSE 0

\* C17: a counter is 0 on first access, and after any interleaving of the
\* Counter actions of the session's runs its value is the sum of the deltas
\* applied to it, which is also what a CounterValue reference then reads.
C17_CounterIsSum ==
    \A id \in DOMAIN counters : CounterGet(counters, id) = Applied(id)

\* what the interceptor hands to the RPC framework for the error of Run
Surfaced(e) == e

\* the Run of p failed in the interpretation itself: evaluating the
\* conditions of an If, or running an action of no known kind
InterpretationFailed(p) ==
    \E i \in Errors(trace[p]) : trace[p][i].kind \in {"If", "Unset"}

\* C18: when the interpretation itself fails, the error surfaced to the RPC
\* framework is a status of code Internal.
C18_FailureIsInternal ==
    \A p \in Procs :
        (pc[p] = "done" /\ InterpretationFailed(p)) =>
            /\ Surfaced(err[p]).kind = "status"
            /\ Surfaced(err[p]).code = "INTERNAL"

\* run p does not hold the run-slot: its last acquireRunLock, at the end of
\* a WaitOnBarrier, failed
LastAcquireFailed(p) ==
    /\ trace[p] # <<>>
    /\ trace[p][Len(trace[p])].kind = "WaitOnBarrier"
    /\ trace[p][Len(trace[p])].err = CtxErr

\* C19: a run-state calls releaseRunLock only for a slot it holds: a Run
\* about to release has a successful acquireRunLock that it has not matched
\* with a release yet.
C19_ReleaseByHolder ==
    \A p \in Procs : pc[p] = "release" => ~LastAcquireFailed(p)

\* C20: once a run-state in WaitOnBarrier has released the run-slot it is
\* on the barrier's queue before any other run-state executes an action.
C20_QueuedBeforeOthersRun ==
    \A p \in Procs : pc[p] = "waitCall" => Executing \ {p} = {}

\* the action list, or a sublist of one of its If actions, has a WaitOnBarrier
RECURSIVE HasWait(_)
HasWait(actions) ==
    \E i \in DOMAIN actions :
        \/ actions[i].kind = "WaitOnBarrier"
        \/ HasWait(actions[i].match)
        \/ HasWait(actions[i].noMatch)

\* some run-state is parked in a WaitOnBarrier
SomeParked == \E p \in Procs : pc[p] = "parked"

\* run q is a call that has yet to get the slot, of a hook with no
\* WaitOnBarrier, while some run-state is parked
BlockedBesideParked(q) ==
    pc[q] = "acquire" /\ ~HasWait(hook[q]) /\ SomeParked

\* run q got the slot, ran its actions to their end and returned
RanAndReturned(q) ==
    /\ pc[q] = "done" /\ ~AcquireFailed(q)
    /\ Len(trace[q]) > 0 \/ hook[q] = <<>>

\* C21: a run-state parked in WaitOnBarrier does not hold the run-slot:
\* every other call of a hook with no WaitOnBarrier that is waiting for the
\* slot meanwhile eventually gets it, runs its actions (SignalBarrier
\* included) and returns, unless its ctx is cancelled.
C21_ParkedHoldsNoSlot ==
    \A q \in Procs : BlockedBesideParked(q) ~> (RanAndReturned(q) \/ CtxDone(q))

\* C21's case: while A is parked on the queue, B has the slot and its
\* SignalBarrier has popped A
C21_Witness ==
    /\ hook = ConfigS4 /\ NoCancel
    /\ pc[1] = "parked" /\ pc[2] = "sending" /\ pending[2] = <<1>>

\* C22: two runs of hooks with no WaitOnBarrier never have their actions
\* interleaved: one runs all its actions before the other runs any, so they
\* are never both in the middle of their action lists.
C22_WaitFreeSerial ==
    \A p, q \in Procs :
        (p # q /\ ~HasWait(hook[p]) /\ ~HasWait(hook[q])) =>
            ~(p \in Executing /\ q \in Executing)

\* C23: a SignalAll is atomic with respect to Wait: no Wait is pushed on the
\* barrier's queue while a waiter the SignalAll popped has yet to be handed
\* its release.
C23_SignalAllAtomic ==
    \A p \in Procs :
        (pc[p] = "sending" /\ CurAction(p).all /\ pending[p] # <<>>) =>
            Queued(CurAction(p).id) = {}

\* the places where a call of Run may block: the two acquireRunLock calls
\* and Barrier.Wait
BlockingPlaces == {"acquire", "reacquire", "parked"}

\* a call that is anywhere else can take its next step
BlocksNowhereElse ==
    \A p \in Procs :
        pc[p] \notin BlockingPlaces \cup {"absent", "done"} => ENABLED Step(p)

\* the step that ends a SignalBarrier of p returns no response and no error
SignalReturnsNothing(p) ==
    (/\ pc[p] \in {"run", "sending"}
     /\ CurAction(p).kind = "SignalBarrier"
     /\ trace'[p] # trace[p]) =>
        trace'[p] = Append(trace[p], [kind |-> "SignalBarrier", code |-> "",
                                      msg |-> "", resp |-> NilResp, err |-> NoErr])

\* C24: SignalBarrier never blocks: with either flag the action can always
\* take its next step and ends with no response and no error, on a barrier
\* with no waiter and when a popped waiter's ctx is cancelled meanwhile; a
\* call blocks only acquiring the run-slot or in a barrier wait.
C24_SignalNeverBlocks ==
    /\ []BlocksNowhereElse
    /\ [][\A p \in Procs : SignalReturnsNothing(p)]_vars

\* C24's case: a signaller ended its SignalBarrier and returned after it
\* handed the payload to a waiter whose Wait had returned on cancellation
C24_Witness ==
    \E p, w \in Procs :
        /\ waitRes[w] = "cancelled" /\ signalled[w]
        /\ pc[p] = "done" /\ Len(trace[p]) > 0
        /\ trace[p][1].kind = "SignalBarrier"
        /\ trace[p][1].err = NoErr

\* C25: a signal is never consumed by a cancelled waiter: a waiter whose
\* Wait returned the cancellation error was popped by no signal.
C25_SignalNotLostToCancel ==
    \A w \in Procs :
        waitRes[w] = "cancelled" => ~signalled[w] /\ w \notin Popped

\* an action of p returns an error in this step
ActionErrors(p) ==
    /\ p \in Executing \/ pc[p] = "reacquire"
    /\ Len(trace'[p]) = Len(trace[p]) + 1
    /\ trace'[p][Len(trace'[p])].err # NoErr

\* runActions of p returned an error
Aborted(p) == trace[p] # <<>> /\ trace[p][Len(trace[p])].err # NoErr

\* the error leaves every list of the tree at once and undoes nothing
AbortsWholeTree(p) ==
    ActionErrors(p) =>
        /\ stack'[p] = <<>> /\ pc'[p] = "release"
        /\ err'[p] = trace'[p][Len(trace'[p])].err /\ resp'[p] = NilResp
        /\ \A id \in DOMAIN counters :
              id \in DOMAIN counters' /\ counters'[id] = counters[id]
        /\ barriers' = barriers /\ signalled' = signalled
        /\ pending' = pending /\ applied' = applied

\* after the error the call runs no action and touches no shared state
NothingAfterError(p) ==
    Aborted(p) =>
        /\ trace'[p] = trace[p]
        /\ pc'[p] # pc[p] =>
              /\ pc[p] = "release" /\ pc'[p] = "done"
              /\ UNCHANGED <<counters, barriers, signalled, pending, applied,
                             handlerCalls>>

\* C26: when an action errors at any depth, an error inside a branch of an
\* If or in the evaluation of its conditions included, no action after it
\* runs in any enclosing list, and the counter updates and barrier signals
\* made before it stay in effect.
C26_ErrorAbortsNoCompensation ==
    /\ [][\A p \in Procs : AbortsWholeTree(p) /\ NothingAfterError(p)]_vars
    /\ [](\A p \in Procs : Aborted(p) =>
             /\ pc[p] \in {"release", "done"} /\ stack[p] = <<>>
             /\ Errors(trace[p]) = {Len(trace[p])})

\* C26's case: the call with the error inside a branch returned it after
\* one Counter update, which stands, and ran neither the Counter after the
\* error nor the SetResponse after the If
C26_Witness ==
    \E p \in Procs :
        /\ hook[p] = HookTree3 /\ pc[p] = "done"
        /\ Len(trace[p]) = 3 /\ trace[p][2].kind = "Counter"
        /\ trace[p][3].code = "ABORTED" /\ err[p] # NoErr /\ resp[p] = NilResp
        /\ \A q \in Procs \ {p} : trace[q] = <<>>
        /\ "m" \in DOMAIN counters /\ counters["m"] = 1

\* what an If step of p must do: fail with the error of the evaluation and
\* run neither sublist, or go on as an action that returned nothing when
\* the selected sublist is empty, or enter the selected sublist, with a
\* response of its own still unset, and nothing else
RunsSelected(p) ==
    IfStep(p) =>
        LET a == CurAction(p)
            c == checkConditions(a.cond, counters)
            sel == IF c.ok THEN a.match ELSE a.noMatch
            rest == AfterResp(stack[p], NilResp)
        IN  IF c.err # NoErr
            THEN /\ stack'[p] = <<>> /\ pc'[p] = "release"
                 /\ err'[p] = c.err /\ resp'[p] = NilResp
                 /\ trace'[p] = Append(trace[p],
                        [kind |-> "If", code |-> "", msg |-> "",
                         resp |-> NilResp, err |-> c.err])
            ELSE /\ err'[p] = NoErr /\ trace'[p] = trace[p]
                 /\ IF sel # <<>>
                    THEN /\ pc'[p] = "run"
                         /\ stack'[p] = Append(Advance(stack[p]),
                                [actions |-> sel, respOut |-> NilResp])
                    ELSE IF Finished(rest)
                         THEN /\ pc'[p] = "release" /\ stack'[p] = <<>>
                              /\ resp'[p] = rest[1].respOut
                         ELSE pc'[p] = "run" /\ stack'[p] = rest

\* the hook of p is one If whose sublists hold no If
SingleIf(p) ==
    /\ Len(hook[p]) = 1 /\ hook[p][1].kind = "If"
    /\ \A b \in {hook[p][1].match, hook[p][1].noMatch} :
          \A i \in DOMAIN b : b[i].kind # "If"

\* the actions of one sublist of the If, and of no other, were run in order
RanSublist(p) ==
    \E b \in {hook[p][1].match, hook[p][1].noMatch} :
        /\ Len(trace[p]) = Len(b)
        /\ \A i \in DOMAIN b : trace[p][i].kind = b[i].kind

\* C27: an If runs exactly the Match sublist when its conditions are true
\* and exactly the NoMatch sublist when they are false, the sublist's result
\* is the If's result, and when the evaluation fails neither sublist runs
\* and the error is the If's result.
C27_IfRunsSelected ==
    /\ [][\A p \in Procs : RunsSelected(p)]_vars
    /\ [](\A p \in Procs :
             (SingleIf(p) /\ pc[p] \in {"release", "handler"} /\ err[p] = NoErr)
                 => RanSublist(p) /\ resp[p] = LastResp(trace[p]))

\* C27's case: in S3 one call ran Match and returned its response, another
\* ran NoMatch and returned its error
C27_Witness ==
    /\ hook = ConfigS3
    /\ \E p, q \in Procs :
          /\ pc[p] = "done" /\ resp[p] = "R1" /\ Len(trace[p]) = 2
          /\ pc[q] = "done" /\ err[q] # NoErr /\ Len(trace[q]) = 1
          /\ trace[q][1].kind = "ReturnError"

\* the places of a Run between an acquire that succeeded and the release
\* that follows it
HoldingPlaces == {"run", "counter", "sending", "release"}

\* a Run enters the handler only by its release, which leaves the slot free
ReleaseBeforeHandler(p) ==
    (pc'[p] = "handler" /\ pc[p] # "handler") =>
        pc[p] = "release" /\ ~runLock'

\* a slot that is taken while p is in the handler is taken by another call
HandlerHoldsNoSlot(p) ==
    (pc[p] = "handler" /\ runLock) =>
        \E q \in Procs \ {p} : pc[q] \in HoldingPlaces

\* C28: the handler is never called while the calling run-state holds the
\* run-slot: the release in Run comes before the fall-through call, so a
\* call in its handler keeps no other call from the slot, and the handlers
\* of several calls may run at once.
C28_HandlerOutsideSlot ==
    /\ [][\A p \in Procs : ReleaseBeforeHandler(p)]_vars
    /\ [](\A p \in Procs : HandlerHoldsNoSlot(p))

\* C28's case: two calls are in their handlers at once and a third has
\* acquired the slot and is running its actions
C28_Witness ==
    \E p, q, r \in Procs :
        /\ p # q /\ pc[p] = "handler" /\ pc[q] = "handler"
        /\ pc[r] = "run" /\ runLock

\* the calls that returned R1, and those that returned the hook's error
ReturnedR1 == {p \in Procs : pc[p] = "done" /\ resp[p] = "R1" /\ err[p] = NoErr}
ReturnedFull ==
    {p \in Procs : /\ pc[p] = "done" /\ resp[p] = NilResp
                   /\ err[p] = StatusToErr(StatusNew("RESOURCE_EXHAUSTED", "full"))}

\* the calls whose Run got the slot and ran the hook
RanHook == {p \in Procs : pc[p] = "done" /\ ~AcquireFailed(p)}

\* C29: check-then-act under the run-slot is atomic: with the S3 hook on
\* every call of a session, counter n never exceeds 3, and of the N calls
\* that ran the hook exactly min(N, 3) return R1 and the rest return the
\* error, however the calls overlap.
C29_CheckThenActAtomic ==
    hook = ConfigS3 =>
        /\ "n" \in DOMAIN counters => counters["n"] <= 3
        /\ Cardinality(ReturnedR1) <= 3
        /\ "n" \in DOMAIN counters \/ ReturnedR1 = {}
        /\ (\A p \in Procs : pc[p] \in {"done", "absent"}) =>
              /\ Cardinality(ReturnedR1) =
                     IF Cardinality(RanHook) < 3 THEN Cardinality(RanHook)
                     ELSE 3
              /\ RanHook = ReturnedR1 \cup ReturnedFull
              /\ RanHook # {} => counters["n"] = Cardinality(ReturnedR1)

\* C29's case: more calls than the limit, all made before the first got the
\* slot, ran the S3 hook and returned, three with R1 and the rest with the
\* error, and n is 3
C29_Witness ==
    /\ hook = ConfigS3
    /\ \A p \in Procs : pc[p] = "done"
    /\ Cardinality(RanHook) > 3
    /\ Cardinality(ReturnedR1) = 3
    /\ Cardinality(ReturnedFull) = Cardinality(RanHook) - 3
    /\ counters["n"] = 3

\* C30: the guarded and the concurrent lookup return one instance per id,
\* created once: the Counter a run-state got from its lookup is the one the
\* registry holds for the id when the run-state updates it, and a lookup
\* that found none creates the only one.
C30_OneInstancePerId ==
    \A p \in Procs :
        pc[p] = "counter" =>
            IF cref[p] = 0
            THEN CurAction(p).id \notin DOMAIN counters
            ELSE cobj[CurAction(p).id] = cref[p]

(* ---------------------------------------------------------------------- *)
(* The bucket admin service (dataimpl/server_v1/bucketadminserver.go)      *)
(* ---------------------------------------------------------------------- *)

\* the bucket names of the requests
BucketNames == {"b1", "b2"}

\* an optional bool of a request: a nil pointer, or a pointer to a value
Unset == [set |-> FALSE, val |-> FALSE]
Some(b) == [set |-> TRUE, val |-> b]
OptBools == {Unset, Some(TRUE), Some(FALSE)}

\* CreateBucket: the settings it hands to agent.CreateBucket
\* ("flushEnabled := false; if in.FlushEnabled != nil ...", the same for
\* replicaIndexes, then "ReplicaIndexDisabled: replicaIndexes")
CreateSettings(flush, ri) ==
    LET flushEnabled == IF flush.set THEN flush.val ELSE FALSE
        replicaIndexes == IF ri.set THEN ri.val ELSE FALSE
    IN  [FlushEnabled |-> flushEnabled, ReplicaIndexDisabled |-> replicaIndexes]

\* UpdateBucket: the settings it hands to agent.UpdateBucket, made from the
\* stored ones ("newBucket.ReplicaIndexDisabled = !*in.ReplicaIndexes")
UpdateSettings(bucket, flush, ri) ==
    [FlushEnabled |-> IF flush.set THEN flush.val ELSE bucket.FlushEnabled,
     ReplicaIndexDisabled |-> IF ri.set THEN ~ri.val ELSE bucket.ReplicaIndexDisabled]

\* ListBuckets: the entry of the response for a stored bucket
\* ("ReplicaIndexes: !bucket.ReplicaIndexDisabled")
ListEntry(bucket) ==
    [FlushEnabled |-> bucket.FlushEnabled,
     ReplicaIndexes |-> ~bucket.ReplicaIndexDisabled]

\* function f without the entry for key k
Without(f, k) == [x \in DOMAIN f \ {k} |-> f[x]]

\* function f with the entry for key k set to v
With(f, k, v) == [x \in DOMAIN f \cup {k} |-> IF x = k THEN v ELSE f[x]]

\* CreateBucket against an agent that stores the settings it is given and
\* refuses a name it has
CreateBucket(name, flush, ri) ==
    /\ IF name \in DOMAIN agentBuckets
       THEN /\ adminCode' = "AlreadyExists"
            /\ UNCHANGED <<agentBuckets, requested>>
       ELSE /\ agentBuckets' = With(agentBuckets, name, CreateSettings(flush, ri))
            /\ requested' = With(requested, name, IF ri.set THEN ri.val ELSE FALSE)
            /\ adminCode' = "OK"
    /\ UNCHANGED <<listed, listedFor, hookVars, topoVars, statusVars>>

\* UpdateBucket: GetBucket, the changed settings, agent.UpdateBucket
UpdateBucket(name, flush, ri) ==
    /\ IF name \notin DOMAIN agentBuckets
       THEN /\ adminCode' = "NotFound"
            /\ UNCHANGED <<agentBuckets, requested>>
       ELSE /\ agentBuckets' = With(agentBuckets, name,
                                    UpdateSettings(agentBuckets[name], flush, ri))
            /\ requested' = IF ri.set THEN With(requested, name, ri.val)
                            ELSE requested
            /\ adminCode' = "OK"
    /\ UNCHANGED <<listed, listedFor, hookVars, topoVars, statusVars>>

\* DeleteBucket
DeleteBucket(name) ==
    /\ IF name \notin DOMAIN agentBuckets
       THEN /\ adminCode' = "NotFound"
            /\ UNCHANGED <<agentBuckets, requested>>
       ELSE /\ agentBuckets' = Without(agentBuckets, name)
            /\ requested' = Without(requested, name)
            /\ adminCode' = "OK"
    /\ UNCHANGED <<listed, listedFor, hookVars, topoVars, statusVars>>

\* ListBuckets: GetAllBuckets and one entry for each bucket
ListBuckets ==
    /\ listed' = [made |-> TRUE,
                  buckets |-> [n \in DOMAIN agentBuckets |-> ListEntry(agentBuckets[n])]]
    /\ listedFor' = requested
    /\ adminCode' = "OK"
    /\ UNCHANGED <<agentBuckets, requested, hookVars, topoVars, statusVars>>

AdminInit == HooksIdle /\ AdminIdle /\ TopoIdle /\ StatusIdle

AdminNext ==
    \/ \E name \in BucketNames, flush, ri \in OptBools :
          CreateBucket(name, flush, ri) \/ UpdateBucket(name, flush, ri)
    \/ \E name \in BucketNames : DeleteBucket(name)
    \/ ListBuckets

AdminSpec == AdminInit /\ [][AdminNext]_vars

\* C33: ReplicaIndexes round-trips: ListBuckets reports for every bucket
\* the ReplicaIndexes its last CreateBucket or UpdateBucket asked for,
\* false when CreateBucket left the field out.
C33_ReplicaIndexesRoundTrip ==
    listed.made =>
        \A n \in DOMAIN listed.buckets :
            listed.buckets[n].ReplicaIndexes = listedFor[n]

(* ---------------------------------------------------------------------- *)
(* The legacy topology (common/legacytopology/topologycalc.go)             *)
(* ---------------------------------------------------------------------- *)

\* the largest number of members of a snapshot, and of vbuckets of a routing
MaxMembers == 3
MaxVbuckets == 3

\* the snapshots: member i has MemberID i and is legacy-enabled or not
Snapshots ==
    UNION { { [Members |-> [i \in 1..n |->
                              [MemberID |-> i, ServerGroup |-> "g",
                               LegacyEnabled |-> en[i]]]] :
                en \in [1..n -> BOOLEAN] } : n \in 0..MaxMembers }

\* the remote topologies: no vbucket routing, or one with its NumVbuckets
Remotes ==
    { [VbucketRouting |-> [nil |-> TRUE, NumVbuckets |-> 0]] }
        \cup { [VbucketRouting |-> [nil |-> FALSE, NumVbuckets |-> n]] :
                  n \in 0..MaxVbuckets }

\* the first loop of ComputeTopology: the legacy-enabled members, in order
RECURSIVE LegacyNodes(_)
LegacyNodes(members) ==
    IF members = <<>> THEN <<>>
    ELSE LET m == Head(members) IN
         (IF m.LegacyEnabled
          THEN <<[NodeID |-> m.MemberID, ServerGroup |-> m.ServerGroup]>>
          ELSE <<>>) \o LegacyNodes(Tail(members))

\* ComputeTopology: what the call does. "vbId % numDataNodes" with no data
\* node is a division by zero, on which the Go runtime panics.
ComputeTopology(l, r) ==
    LET nodes == LegacyNodes(l.Members)
        numDataNodes == Len(nodes)
        n == r.VbucketRouting.NumVbuckets
    IN  IF r.VbucketRouting.nil
        THEN [state |-> "returned", Nodes |-> nodes, routed |-> FALSE,
              DataNodes |-> <<>>, Vbuckets |-> <<>>]
        ELSE IF n > 0 /\ numDataNodes = 0
        THEN [state |-> "panic", Nodes |-> <<>>, routed |-> FALSE,
              DataNodes |-> <<>>, Vbuckets |-> <<>>]
        ELSE [state |-> "returned", Nodes |-> nodes, routed |-> TRUE,
              DataNodes |-> nodes,
              Vbuckets |-> [vbId \in 0..(n - 1) |-> vbId % numDataNodes]]

\* the call of ComputeTopology
Compute ==
    /\ topology.state = "none"
    /\ topology' = ComputeTopology(lt, rt)
    /\ UNCHANGED <<lt, rt, hookVars, adminVars, statusVars>>

TopoInit ==
    /\ HooksIdle /\ AdminIdle /\ StatusIdle
    /\ lt \in Snapshots /\ rt \in Remotes
    /\ topology = [state |-> "none"]

TopoNext == Compute

TopoSpec == TopoInit /\ [][TopoNext]_vars

\* the ids of the legacy-enabled members of the snapshot
LegacyIds == {i \in DOMAIN lt.Members : lt.Members[i].LegacyEnabled}

\* C34: ComputeTopology is total and assigns validly: for every snapshot
\* and every remote topology with a vbucket routing, a snapshot with no
\* legacy-enabled member included, it returns; its nodes are exactly the
\* legacy-enabled members in the snapshot's order, and every vbucket id
\* below NumVbuckets gets the index vbId mod the number of data nodes.
C34_ComputeTopologyTotal ==
    (topology.state # "none" /\ ~rt.VbucketRouting.nil) =>
        /\ topology.state = "returned"
        /\ {topology.Nodes[i].NodeID : i \in DOMAIN topology.Nodes} = LegacyIds
        /\ \A i, j \in DOMAIN topology.Nodes :
              i < j => topology.Nodes[i].NodeID < topology.Nodes[j].NodeID
        /\ DOMAIN topology.Vbuckets = 0..(rt.VbucketRouting.NumVbuckets - 1)
        /\ \A vbId \in DOMAIN topology.Vbuckets :
              /\ topology.Vbuckets[vbId] >= 0
              /\ topology.Vbuckets[vbId] < Len(topology.DataNodes)
              /\ topology.Vbuckets[vbId] = vbId % Len(topology.DataNodes)

(* ---------------------------------------------------------------------- *)
(* The error handler's status constructors                                 *)
(* ---------------------------------------------------------------------- *)

\* the names a constructor is called with
ResourceNames == {"a", "b"}

\* the constructors for a resource that is missing, and for one that exists
MissingCtors ==
    {"NewBucketMissingStatus", "NewScopeMissingStatus",
     "NewCollectionMissingStatus", "NewSearchIndexMissingStatus",
     "NewDocMissingStatus", "NewSdPathNotFoundStatus"}
ExistsCtors ==
    {"NewBucketExistsStatus", "NewSearchIndexExistsStatus",
     "NewDocExistsStatus", "NewSdPathExistsStatus"}

\* the code each constructor hands to status.New
CtorCode(ctor) ==
    CASE ctor = "NewBucketMissingStatus" -> "NotFound"
      [] ctor = "NewBucketExistsStatus" -> "AlreadyExists"
      [] ctor = "NewScopeMissingStatus" -> "NotFound"
      [] ctor = "NewCollectionMissingStatus" -> "NotFound"
      [] ctor = "NewSearchIndexExistsStatus" -> "NotFound"
      [] ctor = "NewSearchIndexMissingStatus" -> "AlreadyExists"
      [] ctor = "NewDocMissingStatus" -> "NotFound"
      [] ctor = "NewDocExistsStatus" -> "AlreadyExists"
      [] ctor = "NewSdPathNotFoundStatus" -> "NotFound"
      [] ctor = "NewSdPathExistsStatus" -> "AlreadyExists"

\* the ResourceType of the ResourceInfo each constructor attaches
CtorResourceType(ctor) ==
    CASE ctor \in {"NewBucketMissingStatus", "NewBucketExistsStatus"} -> "bucket"
      [] ctor = "NewScopeMissingStatus" -> "scope"
      [] ctor = "NewCollectionMissingStatus" -> "collection"
      [] ctor \in {"NewSearchIndexExistsStatus", "NewSearchIndexMissingStatus"} ->
           "searchindex"
      [] ctor \in {"NewDocMissingStatus", "NewDocExistsStatus"} -> "document"
      [] ctor \in {"NewSdPathNotFoundStatus", "NewSdPathExistsStatus"} -> "path"

\* the number of names each constructor takes
CtorArity(ctor) ==
    CASE CtorResourceType(ctor) \in {"bucket", "searchindex"} -> 1
      [] CtorResourceType(ctor) = "scope" -> 2
      [] CtorResourceType(ctor) = "collection" -> 3
      [] CtorResourceType(ctor) = "document" -> 4
      [] CtorResourceType(ctor) = "path" -> 5

\* a call of one of the constructors: status.New with the constructor's
\* code, then the ResourceInfo detail, which leaves the code as it is
NewStatus(ctor, names) ==
    /\ status' = [made |-> TRUE, ctor |-> ctor, code |-> CtorCode(ctor),
                  ResourceType |-> CtorResourceType(ctor),
                  ResourceName |-> names]
    /\ UNCHANGED <<hookVars, adminVars, topoVars>>

StatusInit == HooksIdle /\ AdminIdle /\ TopoIdle /\ StatusIdle

StatusNext ==
    \E ctor \in MissingCtors \cup ExistsCtors :
        \E names \in [1..CtorArity(ctor) -> ResourceNames] : NewStatus(ctor, names)

StatusSpec == StatusInit /\ [][StatusNext]_vars

\* C35: the status codes are uniform across the kinds of resource: every
\* constructor for a missing resource makes a status with code NotFound and
\* every constructor for an existing one makes one with code AlreadyExists,
\* those of the search index included.
C35_UniformStatusCodes ==
    status.made =>
        /\ status.ctor \in MissingCtors => status.code = "NotFound"
        /\ status.ctor \in ExistsCtors => status.code = "AlreadyExists"

\* C31: an ordering operator applied to null operands fails with the
\* comparator's error, also when both operands are null: a hook whose
\* condition is null >= null ends in that error and sets no response.
C31_NullOrderingFails ==
    \A p \in Procs :
        (hook[p] = HookNullOrder /\ ActionsReturned(p)) =>
            err[p] = PlainErr("invalid comparison") /\ resp[p] = NilResp

\* C32: a RequestField ref whose path is a declared field name resolves, so
\* a hook whose condition reads a top-level field of the request does not
\* fail.
C32_RequestFieldResolves ==
    \A p \in Procs :
        (hook[p] = HookField /\ ActionsReturned(p)) => err[p] = NoErr

====
